---- MODULE Spec2Model ----
(***************************************************************************)
(* Model of src/plugin.py: the CoC dice plugin's character store and the   *)
(* command handlers of CoCDiceCommand.execute.                             *)
(*                                                                         *)
(* Text is modelled character by character: a text is a sequence of        *)
(* one-character strings, and a dictionary key is the concatenation of its *)
(* characters.  The module's strings are ASCII, so a CJK character of the  *)
(* source is written as one bracketed symbol:                              *)
(*   <li> U+529B   <liang> U+91CF    (<li><liang> = STR's name)            *)
(*   <ti> U+4F53   <zhi2> U+8D28     (<ti><zhi2> = CON's name)             *)
(*   <xing> U+578B                   (<ti><xing> = SIZ's name)             *)
(*   <min> U+654F  <jie> U+6377      (DEX)                                 *)
(*   <wai> U+5916  <mao> U+8C8C      (APP)                                 *)
(*   <zhi> U+667A                    (<zhi><li> = INT)                     *)
(*   <yi> U+610F   <zhi3> U+5FD7     (POW)                                 *)
(*   <jiao> U+6559 <yu> U+80B2       (EDU)                                 *)
(*   <xing2> U+5E78 <yun> U+8FD0     (LUCK)                                *)
(*   <sheng> U+751F <ming> U+547D    (HP)                                  *)
(*   <mo> U+9B54                     (<mo><li> = MP)                       *)
(*   <li2> U+7406                    (<li2><zhi> = SAN)                    *)
(*   <shang> U+4F24 <hai> U+5BB3 <jia> U+52A0 <zhi4> U+503C  (DB)          *)
(*   <shan> U+95EA <bi> U+907F       (DODGE)                               *)
(*   <yi2> U+79FB  <dong> U+52A8     (<yi2><dong><li> = MOV)               *)
(*   <ni> U+6635   <cheng> U+79F0    (the nickname key)                    *)
(*   <ji> U+57FA <chu> U+7840 <zong> U+603B <shu> U+5C5E <xing3> U+6027    *)
(*                                   (the core total key)                  *)
(*   <ling> U+7075 <gan> U+611F      (alias of INT)                        *)
(*   <qi> U+6C14 (<yun><qi>: alias of LUCK)   <fa> U+6CD5 (<mo><fa>: MP)   *)
(*   <zhi5> U+77E5 (<gan><zhi5>: the custom skill of the usage text)       *)
(*   <ji2> U+8BA1 <suan> U+7B97 <ji3> U+673A  (custom skill "computer")    *)
(*   <dian> U+7535 <nao> U+8111      (its alias)                           *)
(*   <shi> U+4F7F <yong> U+7528      (suffix of its long alias)            *)
(*   <xin> U+4FE1 <yu2> U+8A89       (alias of <xin><yong>, "credit")      *)
(*   <arrow> U+2192                  (the separator of the rename message) *)
(***************************************************************************)
EXTENDS Integers, Sequences, FiniteSets, TLC

(***************************************************************************)
(* Characters and the str / re primitives the handlers use.                *)
(***************************************************************************)
Digits == <<"0", "1", "2", "3", "4", "5", "6", "7", "8", "9">>

UpperChars == <<"A", "B", "C", "D", "E", "F", "G", "H", "I", "J", "K", "L", "M",
                "N", "O", "P", "Q", "R", "S", "T", "U", "V", "W", "X", "Y", "Z">>

LowerChars == <<"a", "b", "c", "d", "e", "f", "g", "h", "i", "j", "k", "l", "m",
                "n", "o", "p", "q", "r", "s", "t", "u", "v", "w", "x", "y", "z">>

\* re: \d
IsDigit(c) == \E i \in 1..10 : Digits[i] = c

DigitVal(c) == (CHOOSE i \in 1..10 : Digits[i] = c) - 1

\* re: \s, str.strip()
IsSpace(c) == c = " "

IsSign(c) == c \in {"+", "-"}

\* str.lower() of one character
LowerChar(c) ==
    IF \E i \in 1..26 : UpperChars[i] = c
    THEN LowerChars[CHOOSE i \in 1..26 : UpperChars[i] = c]
    ELSE c

RECURSIVE Join(_)
\* the str whose characters are s
Join(s) == IF s = <<>> THEN "" ELSE Head(s) \o Join(Tail(s))

Lower(s) == [i \in 1..Len(s) |-> LowerChar(s[i])]

RECURSIVE LStrip(_)
LStrip(s) == IF s # <<>> /\ IsSpace(Head(s)) THEN LStrip(Tail(s)) ELSE s

RECURSIVE RStrip(_)
RStrip(s) ==
    IF s # <<>> /\ IsSpace(s[Len(s)]) THEN RStrip(SubSeq(s, 1, Len(s) - 1)) ELSE s

\* str.strip()
Strip(s) == LStrip(RStrip(s))

RECURSIVE LStripMinus(_)
\* str.lstrip('-')
LStripMinus(s) == IF s # <<>> /\ Head(s) = "-" THEN LStripMinus(Tail(s)) ELSE s

\* str.isdigit()
IsDigitStr(s) == s # <<>> /\ \A i \in 1..Len(s) : IsDigit(s[i])

RECURSIVE DigitsVal(_)
\* int() of a run of digits
DigitsVal(s) ==
    IF s = <<>> THEN 0 ELSE 10 * DigitsVal(SubSeq(s, 1, Len(s) - 1)) + DigitVal(s[Len(s)])

\* int(s): one optional sign, then digits only; anything else raises ValueError
IntOf(s) ==
    LET body == IF s # <<>> /\ IsSign(Head(s)) THEN Tail(s) ELSE s
    IN  IF IsDigitStr(body)
        THEN [ok |-> TRUE,
              val |-> IF s[1] = "-" THEN 0 - DigitsVal(body) ELSE DigitsVal(body)]
        ELSE [ok |-> FALSE, val |-> 0]

\* re: [^\d\s+-], a character of a name token
IsNameChar(c) == ~IsDigit(c) /\ ~IsSpace(c) /\ ~IsSign(c)

\* re: [\d+-], a character of a value token
IsValueChar(c) == IsDigit(c) \/ IsSign(c)

\* re: \d* at from, greedy: the length of the run of digits of s that starts at from
RECURSIVE DigitRun(_, _)
DigitRun(s, from) ==
    IF from <= Len(s) /\ IsDigit(s[from]) THEN 1 + DigitRun(s, from + 1) ELSE 0

\* re: [^\d\s+-]* at from, greedy
RECURSIVE NameRun(_, _)
NameRun(s, from) ==
    IF from <= Len(s) /\ IsNameChar(s[from]) THEN 1 + NameRun(s, from + 1) ELSE 0

\* re: \s* at from, greedy
RECURSIVE SpaceRun(_, _)
SpaceRun(s, from) ==
    IF from <= Len(s) /\ IsSpace(s[from]) THEN 1 + SpaceRun(s, from + 1) ELSE 0

\* re: [\d+-]* at from, greedy
RECURSIVE ValueRun(_, _)
ValueRun(s, from) ==
    IF from <= Len(s) /\ IsValueChar(s[from]) THEN 1 + ValueRun(s, from + 1) ELSE 0

\* the index of the first c in s, 0 when there is none (str.find + 1)
RECURSIVE FindChar(_, _, _)
FindChar(s, c, from) ==
    IF from > Len(s) THEN 0
    ELSE IF s[from] = c THEN from ELSE FindChar(s, c, from + 1)

\* str.count(c)
RECURSIVE CountChar(_, _)
CountChar(s, c) ==
    IF s = <<>> THEN 0 ELSE (IF Head(s) = c THEN 1 ELSE 0) + CountChar(Tail(s), c)

Max(a, b) == IF a >= b THEN a ELSE b

Min(a, b) == IF a <= b THEN a ELSE b

(***************************************************************************)
(* The attribute catalog.                                                  *)
(***************************************************************************)
\* BASE_ATTR_MAP: canonical name -> short code (the display label is not modelled)
BASE_ATTR_MAP ==
    [n \in {"<sheng><ming>", "<mo><li>", "<li2><zhi>", "<li><liang>", "<ti><zhi2>",
            "<ti><xing>", "<min><jie>", "<wai><mao>", "<zhi><li>", "<yi><zhi3>",
            "<jiao><yu>", "<xing2><yun>", "<shang><hai><jia><zhi4>", "<shan><bi>",
            "<yi2><dong><li>"} |->
        CASE n = "<sheng><ming>" -> "HP"
          [] n = "<mo><li>" -> "MP"
          [] n = "<li2><zhi>" -> "SAN"
          [] n = "<li><liang>" -> "STR"
          [] n = "<ti><zhi2>" -> "CON"
          [] n = "<ti><xing>" -> "SIZ"
          [] n = "<min><jie>" -> "DEX"
          [] n = "<wai><mao>" -> "APP"
          [] n = "<zhi><li>" -> "INT"
          [] n = "<yi><zhi3>" -> "POW"
          [] n = "<jiao><yu>" -> "EDU"
          [] n = "<xing2><yun>" -> "LUCK"
          [] n = "<shang><hai><jia><zhi4>" -> "DB"
          [] n = "<shan><bi>" -> "DODGE"
          [] n = "<yi2><dong><li>" -> "MOV"]

\* ATTR_ALIAS_MAP.  The emoji-decorated display labels and the skill aliases no text
\* of the model uses are left out: a key that no input spells is never looked up.
ATTR_ALIAS_MAP ==
    [a \in {"str", "con", "siz", "dex", "app", "int", "<ling><gan>", "pow", "edu",
            "luck", "<yun><qi>", "hp", "<ti><li>", "mp", "<mo><fa>", "san",
            "<li2><zhi><zhi4>", "san<zhi4>", "db", "dodge", "mov",
            "<ji2><suan><ji3><shi><yong>", "<dian><nao>", "<xin><yu2>"} |->
        CASE a = "str" -> "<li><liang>"
          [] a = "con" -> "<ti><zhi2>"
          [] a = "siz" -> "<ti><xing>"
          [] a = "dex" -> "<min><jie>"
          [] a = "app" -> "<wai><mao>"
          [] a \in {"int", "<ling><gan>"} -> "<zhi><li>"
          [] a = "pow" -> "<yi><zhi3>"
          [] a = "edu" -> "<jiao><yu>"
          [] a \in {"luck", "<yun><qi>"} -> "<xing2><yun>"
          [] a \in {"hp", "<ti><li>"} -> "<sheng><ming>"
          [] a \in {"mp", "<mo><fa>"} -> "<mo><li>"
          [] a \in {"san", "<li2><zhi><zhi4>", "san<zhi4>"} -> "<li2><zhi>"
          [] a = "db" -> "<shang><hai><jia><zhi4>"
          [] a = "dodge" -> "<shan><bi>"
          [] a = "mov" -> "<yi2><dong><li>"
          [] a \in {"<ji2><suan><ji3><shi><yong>", "<dian><nao>"} -> "<ji2><suan><ji3>"
          [] a = "<xin><yu2>" -> "<xin><yong>"]

CORE_BASE_ATTR_SHORTS == <<"STR", "CON", "SIZ", "DEX", "APP", "INT", "POW", "EDU", "LUCK">>

AUTO_CALC_ATTR_SHORTS == <<"HP", "MP", "SAN", "DB", "DODGE", "MOV">>

BASE_ATTR_NAMES == DOMAIN BASE_ATTR_MAP

BASE_ATTR_TO_SHORT == BASE_ATTR_MAP

\* the keys of SHORT_TO_BASE_ATTR
SHORT_TO_BASE_ATTR == {BASE_ATTR_MAP[n] : n \in BASE_ATTR_NAMES}

\* the reserved key of the nickname
NICK == "<ni><cheng>"

\* the reserved key of the core total
TOTAL == "<ji><chu><zong><shu><xing3>"

\* the keys get_single_skill_value, get_character_skills and
\* delete_character_attribute never treat as a skill
ExcludeKeys == SHORT_TO_BASE_ATTR \cup {TOTAL, "<zong><shu><xing3>", NICK}

(***************************************************************************)
(* Values of a character record (a Python dict): an int or a str.          *)
(***************************************************************************)
IntV(n) == [int |-> n]

StrV(s) == [str |-> s]

IsInt(v) == DOMAIN v = {"int"}

\* dict.get(key, default)
Get(d, k, default) == IF k \in DOMAIN d THEN d[k] ELSE default

\* d[k] = v on a copy of d
Put(d, k, v) == [x \in DOMAIN d \cup {k} |-> IF x = k THEN v ELSE d[x]]

\* del d[k] on a copy of d
Del(d, k) == [x \in DOMAIN d \ {k} |-> d[x]]

(***************************************************************************)
(* Dice.                                                                   *)
(***************************************************************************)
\* How many of the lowest and of the highest sums of a roll the model draws.
RollSpread == 1

\* roll_dice's sum of count dice of face faces: any of count..count*face in the code,
\* the RollSpread lowest and highest of them here
RollSums(count, face) ==
    {x \in {count + k : k \in 0..(RollSpread - 1)} \cup
           {count * face - k : k \in 0..(RollSpread - 1)} :
        count <= x /\ x <= count * face}

\* roll_dice(count, face, modifier): the totals it can return
roll_dice(count, face, modifier) == {x + modifier : x \in RollSums(count, face)}

\* parse_dice_expression: ^(\d*)d(\d+)([+-]\d+)?$ with re.IGNORECASE on expr.strip(),
\* then the range checks; ok = FALSE stands for the ValueError
parse_dice_expression(expr) ==
    LET e == Strip(expr)
        nc == DigitRun(e, 1)
        nf == DigitRun(e, nc + 2)
        rest == SubSeq(e, nc + nf + 2, Len(e))
        matched == /\ nc + 1 <= Len(e)
                   /\ LowerChar(e[nc + 1]) = "d"
                   /\ nf >= 1
                   /\ \/ rest = <<>>
                      \/ /\ IsSign(Head(rest))
                         /\ IsDigitStr(Tail(rest))
        count == IF nc = 0 THEN 1 ELSE DigitsVal(SubSeq(e, 1, nc))
        face == DigitsVal(SubSeq(e, nc + 2, nc + nf + 1))
        modifier == IF rest = <<>> THEN 0 ELSE IntOf(rest).val
    IN  IF ~matched THEN [ok |-> FALSE, err |-> "InvalidExpression"]
        ELSE IF count <= 0 \/ count > 100 THEN [ok |-> FALSE, err |-> "CountOutOfRange"]
        ELSE IF face <= 0 \/ face > 1000 THEN [ok |-> FALSE, err |-> "FacesOutOfRange"]
        ELSE [ok |-> TRUE, count |-> count, face |-> face, modifier |-> modifier]

\* split_check_params: (the first space-separated token, the rest)
split_check_params(params) ==
    LET p == Strip(params)
        sp == FindChar(p, " ", 1)
    IN  IF p = <<>> THEN <<<<>>, <<>>>>
        ELSE IF sp = 0 THEN <<p, <<>>>>
        ELSE <<SubSeq(p, 1, sp - 1), SubSeq(p, sp + 1, Len(p))>>

(***************************************************************************)
(* A Python dict built by insertion: a sequence of [name, value] items.    *)
(***************************************************************************)
\* the position of key k in the item sequence d, 0 when absent
RECURSIVE ItemIndex(_, _, _)
ItemIndex(d, k, from) ==
    IF from > Len(d) THEN 0
    ELSE IF d[from].name = k THEN from ELSE ItemIndex(d, k, from + 1)

\* an assignment that leaves the value of an existing key alone
SetItemKeepFirst(d, k, v) ==
    LET i == ItemIndex(d, k, 1)
    IN  IF i = 0 THEN Append(d, [name |-> k, value |-> v]) ELSE d

\* d[k] = v: an existing key keeps its place, a new key goes last
SetItem(d, k, v) ==
    LET i == ItemIndex(d, k, 1)
    IN  IF i = 0 THEN Append(d, [name |-> k, value |-> v])
        ELSE [d EXCEPT ![i] = [name |-> k, value |-> v]]

(***************************************************************************)
(* parse_import_attr_params                                                *)
(***************************************************************************)
\* pattern.findall(params) from position from, for the pattern
\* ([^\d\s+-]+)\s*([\d+-]+(?:d\d+)?): the (raw_name, value_str) pairs in order
RECURSIVE ImportMatches(_, _)
ImportMatches(s, from) ==
    IF from > Len(s) THEN <<>>
    ELSE
        LET nn == NameRun(s, from)
            ns == SpaceRun(s, from + nn)
            vstart == from + nn + ns
            nv == ValueRun(s, vstart)
            dpos == vstart + nv
            nd == IF dpos <= Len(s) /\ s[dpos] = "d" THEN DigitRun(s, dpos + 1) ELSE 0
            vend == IF nd >= 1 THEN dpos + nd ELSE dpos - 1
        IN  IF nn = 0 THEN ImportMatches(s, from + 1)
            ELSE IF nv = 0 THEN ImportMatches(s, vstart)
            ELSE <<[raw_name |-> SubSeq(s, from, from + nn - 1),
                    value_str |-> SubSeq(s, vstart, vend)]>>
                 \o ImportMatches(s, vend + 1)

\* lines 281-282: the alias lookup of a raw name
StandardName(raw_name) ==
    LET attr_name == Join(Lower(Strip(raw_name)))
    IN  IF attr_name \in DOMAIN ATTR_ALIAS_MAP
        THEN ATTR_ALIAS_MAP[attr_name]
        ELSE Join(Strip(raw_name))

\* lines 299: the range clamp of an imported value
\* the clamp without its lower bound
ClampImportUpperOnly(attr_value) == Min(200, attr_value)

ClampImport(attr_value) == Max(0, Min(200, attr_value))

\* lines 285-296: the values one value_str can parse to; none when the pair is skipped
ImportValues(value_str) ==
    IF \E i \in 1..Len(value_str) : LowerChar(value_str[i]) = "d"
    THEN LET d == parse_dice_expression(value_str)
         IN  IF d.ok THEN roll_dice(d.count, d.face, d.modifier) ELSE {}
    ELSE IF IntOf(value_str).ok THEN {IntOf(value_str).val} ELSE {}

\* lines 279-300: the loop over the matches from the i-th on; the attr_dicts it can end with
RECURSIVE ImportLoop(_, _, _)
ImportLoop(matches, i, attr_dict) ==
    IF i > Len(matches) THEN {attr_dict}
    ELSE
        LET vals == ImportValues(matches[i].value_str)
            standard_name == StandardName(matches[i].raw_name)
        IN  IF vals = {} THEN ImportLoop(matches, i + 1, attr_dict)
            ELSE UNION {ImportLoop(matches, i + 1,
                                   SetItem(attr_dict, standard_name, ClampImport(v)))
                        : v \in vals}

\* parse_import_attr_params(params): its possible results; ok = FALSE is the ValueError
parse_import_attr_params(params) ==
    IF Strip(params) = <<>> THEN {[ok |-> FALSE, err |-> "NoParameters", dict |-> <<>>]}
    ELSE IF ImportMatches(params, 1) = <<>>
         THEN {[ok |-> FALSE, err |-> "NoRecognizedAttributes", dict |-> <<>>]}
    ELSE {[ok |-> TRUE, err |-> "", dict |-> d] : d \in ImportLoop(ImportMatches(params, 1), 1, <<>>)}

(***************************************************************************)
(* parse_damage_bonus_value, parse_san_deduct_value                        *)
(***************************************************************************)
\* parse_damage_bonus_value: the values it can return.  Its callers pass "-2", "-1",
\* "0", "1d4", "1d6" or "2d6", so the int() of line 307 never raises.
parse_damage_bonus_value(damage_bonus_str) ==
    LET nc == DigitRun(damage_bonus_str, 1)
        nf == DigitRun(damage_bonus_str, nc + 2)
        matched == /\ nc >= 1
                   /\ nc + 1 <= Len(damage_bonus_str)
                   /\ damage_bonus_str[nc + 1] = "d"
                   /\ nf >= 1
                   /\ nc + 1 + nf = Len(damage_bonus_str)
    IN  IF IsDigitStr(LStripMinus(damage_bonus_str))
        THEN {IntOf(damage_bonus_str).val}
        ELSE IF matched
        THEN roll_dice(DigitsVal(SubSeq(damage_bonus_str, 1, nc)),
                       DigitsVal(SubSeq(damage_bonus_str, nc + 2, nc + 1 + nf)), 0)
        ELSE {0}

\* parse_san_deduct_value(expr): its possible outcomes; ok = FALSE is the ValueError
\* that int(expr) of line 325 raises outside the try (for "--5": lstrip('-') leaves
\* digits only, int() refuses two signs)
parse_san_deduct_value(expr) ==
    IF IsDigitStr(LStripMinus(expr))
    THEN IF IntOf(expr).ok
         THEN {[ok |-> TRUE, val |-> Max(IntOf(expr).val, 1)]}
         ELSE {[ok |-> FALSE, val |-> 0]}
    ELSE LET d == parse_dice_expression(expr)
         IN  IF d.ok
             THEN {[ok |-> TRUE, val |-> Max(total, 1)] :
                       total \in roll_dice(d.count, d.face, d.modifier)}
             ELSE {[ok |-> TRUE, val |-> 1]}

(***************************************************************************)
(* Initial attribute formulas and generation.                              *)
(***************************************************************************)
\* calculate_damage_bonus: the values it can return
calculate_damage_bonus(str_value, siz_value) ==
    LET total == str_value + siz_value
        damage_bonus_expr ==
            IF 2 <= total /\ total <= 64 THEN <<"-", "2">>
            ELSE IF 65 <= total /\ total <= 84 THEN <<"-", "1">>
            ELSE IF 85 <= total /\ total <= 124 THEN <<"0">>
            ELSE IF 125 <= total /\ total <= 164 THEN <<"1", "d", "4">>
            ELSE IF 165 <= total /\ total <= 204 THEN <<"1", "d", "6">>
            ELSE IF total >= 205 THEN <<"2", "d", "6">>
            ELSE <<"-", "2">>
    IN  parse_damage_bonus_value(damage_bonus_expr)

calculate_dodge(dex_value) == dex_value \div 2

calculate_movement(dex_value, str_value, siz_value) ==
    IF dex_value < siz_value /\ str_value < siz_value THEN 7
    ELSE IF dex_value > siz_value /\ str_value > siz_value THEN 9
    ELSE 8

\* the sum of the core attributes of a record, a missing one counting 0
\* (sum([user_char.get(short, 0) for short in CORE_BASE_ATTR_SHORTS]))
RECURSIVE SumShorts(_, _)
SumShorts(char, i) ==
    IF i > Len(CORE_BASE_ATTR_SHORTS) THEN 0
    ELSE Get(char, CORE_BASE_ATTR_SHORTS[i], IntV(0)).int + SumShorts(char, i + 1)

CoreSum(char) == SumShorts(char, 1)

\* the total taken over all fifteen base attributes instead of the nine core ones
WithTotalAll(char) ==
    Put(char, TOTAL,
        IntV(CoreSum(char) + Get(char, "HP", IntV(0)).int + Get(char, "MP", IntV(0)).int
             + Get(char, "SAN", IntV(0)).int + Get(char, "DB", IntV(0)).int
             + Get(char, "DODGE", IntV(0)).int + Get(char, "MOV", IntV(0)).int))

\* lines 740-741, 510-511, 520-521, 958-959, 412-413: the recomputed core total
WithTotal(char) == Put(char, TOTAL, IntV(CoreSum(char)))

\* The nine rolls of one generation are numbered in the order of the code: the 3d6
\* of STR, CON, DEX, APP, POW, LUCK, then the 2d6 of SIZ, INT, EDU.  The model draws
\* them by pattern: roll GenBitOrder[k] is the highest sum when bit k - 1 of the
\* pattern number is set and the lowest otherwise.
GenBitOrder == <<1, 7, 3, 2, 4, 5, 6, 8, 9>>

\* The generations the model draws are the patterns 0..MaxGenPattern.
MaxGenPattern == 1

GenRollsOf(g) ==
    [i \in 1..9 |->
        LET k == CHOOSE k \in 1..9 : GenBitOrder[k] = i
            high == (g \div (2 ^ (k - 1))) % 2 = 1
        IN  IF i <= 6 THEN (IF high THEN 18 ELSE 3) ELSE (IF high THEN 12 ELSE 2)]

\* the roll_dice results of lines 393 and 399, one tuple per generation drawn
GenRolls == {GenRollsOf(g) : g \in 0..MaxGenPattern}

\* generate_character_attributes(nickname) when its nine rolls are rolls and the
\* damage bonus evaluates to db
GenerateFrom(nickname, rolls, db) ==
    LET core == [short \in {"STR", "CON", "DEX", "APP", "POW", "LUCK", "SIZ", "INT", "EDU"} |->
                    CASE short = "STR" -> IntV(rolls[1] * 5)
                      [] short = "CON" -> IntV(rolls[2] * 5)
                      [] short = "DEX" -> IntV(rolls[3] * 5)
                      [] short = "APP" -> IntV(rolls[4] * 5)
                      [] short = "POW" -> IntV(rolls[5] * 5)
                      [] short = "LUCK" -> IntV(rolls[6] * 5)
                      [] short = "SIZ" -> IntV((rolls[7] + 6) * 5)
                      [] short = "INT" -> IntV((rolls[8] + 6) * 5)
                      [] short = "EDU" -> IntV((rolls[9] + 6) * 5)]
        fixed == (NICK :> StrV(nickname)) @@ ("HP" :> IntV(12)) @@ ("MP" :> IntV(10))
                 @@ ("SAN" :> IntV(50))
        auto == ("DB" :> IntV(db))
                @@ ("DODGE" :> IntV(calculate_dodge(core["DEX"].int)))
                @@ ("MOV" :> IntV(calculate_movement(core["DEX"].int, core["STR"].int,
                                                     core["SIZ"].int)))
    IN  WithTotal(fixed @@ core @@ auto)

\* generate_character_attributes(nickname): the records it can return
generate_character_attributes(nickname) ==
    UNION {{GenerateFrom(nickname, rolls, db)
            : db \in calculate_damage_bonus(rolls[1] * 5, (rolls[7] + 6) * 5)}
           : rolls \in GenRolls}

\* generate_single_base_attr(attr_name): the values it can return
generate_single_base_attr(attr_name) ==
    LET short_name == BASE_ATTR_TO_SHORT[attr_name]
        normal == {sum_3d6 * 5 : sum_3d6 \in roll_dice(3, 6, 0)}
        special == {(sum_2d6 + 6) * 5 : sum_2d6 \in roll_dice(2, 6, 0)}
    IN  CASE short_name = "HP" -> {12}
          [] short_name = "MP" -> {10}
          [] short_name = "SAN" -> {50}
          [] short_name \in {"STR", "CON", "DEX", "APP", "POW", "LUCK"} -> normal
          [] short_name \in {"SIZ", "INT", "EDU"} -> special
          [] short_name = "DB" ->
                UNION {calculate_damage_bonus(str_val, siz_val)
                       : str_val \in normal, siz_val \in special}
          [] short_name = "DODGE" -> {calculate_dodge(dex_val) : dex_val \in normal}
          [] short_name = "MOV" ->
                {calculate_movement(dex_val, str_val, siz_val)
                 : dex_val \in normal, str_val \in normal, siz_val \in special}

(***************************************************************************)
(* The character store and the handlers' observable result.                *)
(***************************************************************************)
VARIABLES
    USER_CHARACTER_DATA,  \* the module-level dict: user id -> character record
    file,                 \* what CHAR_DATA_PATH holds: [state, data]
    ret,                  \* the last command and what its handler returned
    writes,               \* how many commands have written USER_CHARACTER_DATA
    faults,               \* how many calls of save_character_data have failed
    running               \* the handlers in flight at once and where each of them is

vars == <<USER_CHARACTER_DATA, file, ret, writes, faults, running>>

\* The commands of an actor (see Actors) that write the store are counted up to
\* MaxWrites.
MaxWrites == 2

\* The failing calls of save_character_data are counted up to MaxSaveFaults.
MaxSaveFaults == 1

\* user ids, and message_info.user_info.user_nickname of each (u2 has none set)
Users == {"u1", "u2"}

PlatformNickname == ("u1" :> <<"A", "l">>) @@ ("u2" :> <<>>)

\* line 667: user_nickname or the "unknown character" default
user_nickname(u) ==
    IF PlatformNickname[u] # <<>> THEN PlatformNickname[u]
    ELSE <<"<wei>", "<zhi5>", "<jue>", "<se>">>

\* the empty dict
EmptyDict == [x \in {} |-> IntV(0)]

\* save_character_data(char_data): the write succeeds, or fails before the file is
\* opened (the file keeps its content), or fails after open(..., "w") truncated it
SaveOutcomes == {"saved", "failed", "torn"}

FileAfterSave(char_data, outcome) ==
    CASE outcome = "saved" -> [state |-> "written", data |-> char_data]
      [] outcome = "failed" -> file
      [] outcome = "torn" -> [state |-> "torn", data |-> EmptyDict]

\* what a handler returns and the inputs it was given: ok is the first element of
\* the returned tuple, err names the failure, info holds what the message reports
Ret(cmd, u, params, ok, err, info) ==
    [cmd |-> cmd, uid |-> u, params |-> params, ok |-> ok, err |-> err, info |-> info]

NoInfo == [none |-> TRUE]

\* no handlers in flight at once
NoRunning == [mode |-> "none", clock |-> 0, tasks |-> <<>>]

\* USER_CHARACTER_DATA = load_character_data() with no file: an empty store
Init ==
    /\ USER_CHARACTER_DATA = EmptyDict
    /\ file = [state |-> "absent", data |-> EmptyDict]
    /\ ret = Ret("none", "", <<>>, TRUE, "", NoInfo)
    /\ writes = 0
    /\ faults = 0
    /\ running = NoRunning

\* save_character_data(char_data) and its return value's effect on nothing: the
\* handlers ignore it
Save(char_data) ==
    \E outcome \in SaveOutcomes :
        /\ outcome # "saved" => faults < MaxSaveFaults
        /\ file' = FileAfterSave(char_data, outcome)
        /\ faults' = IF outcome = "saved" THEN faults ELSE faults + 1

\* The host dispatches one message at a time: a handler runs when no return value
\* is pending.
Idle == ret.cmd = "none"

\* a handler that returns without touching the store
Return(r) ==
    /\ Idle
    /\ ret' = r
    /\ UNCHANGED <<USER_CHARACTER_DATA, file, writes, faults, running>>

\* The handlers treat every user id alike and touch only the sender's record, so the
\* model gives the whole range of inputs to the actors and lets the other users only
\* create and delete their character.
Actors == {"u1"}

\* a handler that assigns the store, calls save_character_data and returns
WriteSaveReturn(char_data, r) ==
    /\ Idle
    /\ r.uid \in Actors => writes < MaxWrites
    /\ USER_CHARACTER_DATA' = char_data
    /\ Save(char_data)
    /\ writes' = IF r.uid \in Actors THEN writes + 1 ELSE writes
    /\ ret' = r
    /\ UNCHANGED running

(***************************************************************************)
(* create-character: lines 1048-1077                                       *)
(***************************************************************************)
CreateParams(u) == IF u \in Actors THEN {<<>>, <<"M", "i", "n", "g">>} ELSE {<<>>}

\* a create-character that lays the generated record over the existing one
CreateCharacterMerging(u, params) ==
    LET role_nickname == IF Strip(params) # <<>> THEN Strip(params) ELSE user_nickname(u)
        old == IF u \in DOMAIN USER_CHARACTER_DATA THEN USER_CHARACTER_DATA[u] ELSE EmptyDict
    IN  \E attr_data \in generate_character_attributes(role_nickname) :
            WriteSaveReturn(Put(USER_CHARACTER_DATA, u, attr_data @@ old),
                            Ret("create", u, params, TRUE, "",
                                [nickname |-> role_nickname, total |-> attr_data[TOTAL].int]))

CreateCharacter(u, params) ==
    LET role_nickname == IF Strip(params) # <<>> THEN Strip(params) ELSE user_nickname(u)
    IN  \E attr_data \in generate_character_attributes(role_nickname) :
            WriteSaveReturn(Put(USER_CHARACTER_DATA, u, attr_data),
                            Ret("create", u, params, TRUE, "",
                                [nickname |-> role_nickname, total |-> attr_data[TOTAL].int]))

(***************************************************************************)
(* delete-character: lines 528-534 and 1025-1045                           *)
(***************************************************************************)
\* raw params of the delete-character command (normally none)
DeleteCharacterParams(u) == IF u \in Actors THEN {<<>>, <<"x">>} ELSE {<<>>}

\* a delete-character that empties the record instead of removing it
DeleteCharacterCmdEmptying(u, params) ==
    IF params # <<>>
    THEN Return(Ret("delete_character", u, params, FALSE, "NoParametersAllowed", NoInfo))
    ELSE IF u \in DOMAIN USER_CHARACTER_DATA
    THEN WriteSaveReturn(Put(USER_CHARACTER_DATA, u, EmptyDict),
                         Ret("delete_character", u, params, TRUE, "", NoInfo))
    ELSE Return(Ret("delete_character", u, params, FALSE, "NoCharacter", NoInfo))

DeleteCharacterCmd(u, params) ==
    IF params # <<>>
    THEN Return(Ret("delete_character", u, params, FALSE, "NoParametersAllowed", NoInfo))
    ELSE IF u \in DOMAIN USER_CHARACTER_DATA
    THEN WriteSaveReturn(Del(USER_CHARACTER_DATA, u),
                         Ret("delete_character", u, params, TRUE, "", NoInfo))
    ELSE Return(Ret("delete_character", u, params, FALSE, "NoCharacter", NoInfo))

(***************************************************************************)
(* rename: lines 536-550 and 690-712                                       *)
(***************************************************************************)
\* the text of a stored nickname in an f-string: a str as it is, an int in decimal
RECURSIVE DecimalOf(_)
DecimalOf(n) ==
    IF n < 10 THEN <<Digits[n + 1]>> ELSE Append(DecimalOf(n \div 10), Digits[(n % 10) + 1])

FormatValue(v) == IF IsInt(v) THEN DecimalOf(v.int) ELSE v.str

RenameParams == {<<>>, <<"M", "i", "n", "g">>, <<"X", "<arrow>", "Y">>}

RenameCmd(u, params) ==
    LET new_nickname == Strip(params)
    IN  IF Strip(new_nickname) = <<>>
        THEN Return(Ret("rename", u, params, FALSE, "EmptyNickname", NoInfo))
        ELSE IF u \notin DOMAIN USER_CHARACTER_DATA
        THEN Return(Ret("rename", u, params, FALSE, "NoCharacter", NoInfo))
        ELSE LET user_char == USER_CHARACTER_DATA[u]
                 old_nickname == FormatValue(Get(user_char, NICK,
                                                 StrV(<<"<wei>", "<zhi5>", "<jue>", "<se>">>)))
                 msg == old_nickname \o <<"<arrow>">> \o new_nickname
                 renamed == Put(USER_CHARACTER_DATA, u,
                                Put(user_char, NICK, StrV(Strip(new_nickname))))
             IN  \* line 695: old_nickname, new_nick = msg.split(arrow) raises
                 \* ValueError unless msg holds exactly one arrow; rename_character
                 \* has saved by then, and the handler's except returns the failure
                 IF CountChar(msg, "<arrow>") = 1
                 THEN WriteSaveReturn(renamed,
                          Ret("rename", u, params, TRUE, "",
                              [old_nickname |-> old_nickname, new_nickname |-> new_nickname]))
                 ELSE WriteSaveReturn(renamed,
                          Ret("rename", u, params, FALSE, "Exception", NoInfo))

(***************************************************************************)
(* import: lines 715-765                                                   *)
(***************************************************************************)
\* lines 728-737: the items of import_attr_dict from the i-th on applied to user_char
RECURSIVE ApplyImport(_, _, _)
ApplyImport(user_char, import_attr_dict, i) ==
    IF i > Len(import_attr_dict) THEN user_char
    ELSE LET attr_name == import_attr_dict[i].name
             attr_value == IntV(import_attr_dict[i].value)
         IN  IF attr_name \in DOMAIN BASE_ATTR_TO_SHORT
             THEN ApplyImport(Put(user_char, BASE_ATTR_TO_SHORT[attr_name], attr_value),
                              import_attr_dict, i + 1)
             ELSE ApplyImport(Put(user_char, attr_name, attr_value), import_attr_dict, i + 1)

\* an import that also re-derives DODGE from the DEX it leaves
ImportedCharRederived(base_char, import_attr_dict) ==
    LET applied == ApplyImport(base_char, import_attr_dict, 1)
    IN  WithTotal(Put(applied, "DODGE",
                      IntV(calculate_dodge(Get(applied, "DEX", IntV(0)).int))))

\* the record the import handler stores, from the record it copied
ImportedChar(base_char, import_attr_dict) ==
    WithTotal(ApplyImport(base_char, import_attr_dict, 1))

\* the import texts of the store specification
ImportParams ==
    { <<"<li>", "<liang>", "8", "0", "<min>", "<jie>", "7", "5">>,
      <<"<li2>", "<zhi>", "1", " ", "<min>", "<jie>", "-", "5">>,
      <<"<gan>", "<zhi5>", "3", "d", "1", "0", "0", " ", "<ni>", "<cheng>", "5">>,
      <<>> }

\* the import texts of the import specification
ImportTexts ==
    { <<"<li>", "<liang>", "8", "0", "<min>", "<jie>", "7", "5">>,
      <<"<li>", "<liang>", "6", "0", "S", "T", "R", "2", "5", "0">>,
      <<"<li2>", "<zhi>", "1", " ", "<min>", "<jie>", "-", "5">>,
      <<"<gan>", "<zhi5>", "3", "d", "1", "0", "0", " ", "<ni>", "<cheng>", "5">>,
      <<"<ji>", "<chu>", "<zong>", "<shu>", "<xing3>", "7", "<dian>", "<nao>", "4", "0">>,
      <<"<li>", "<liang>", "6", "0", " ", "<li>", "<liang>", "1", "d", "0">>,
      <<"<li>", "<liang>", "6", "0", "s", "t", "r", "7", "0", " ",
        "<li>", "<liang>", "1", "d", "0">>,
      <<"<li>", "<liang>", "1", "d", "0">>,
      <<"a", "b", "c">>,
      <<>> }

ImportCmd(u, params) ==
    \E parsed \in parse_import_attr_params(params) :
        IF ~parsed.ok
        THEN Return(Ret("import", u, params, FALSE, parsed.err, NoInfo))
        ELSE \E base_char \in (IF u \in DOMAIN USER_CHARACTER_DATA
                               THEN {USER_CHARACTER_DATA[u]}
                               ELSE generate_character_attributes(user_nickname(u))) :
                WriteSaveReturn(
                    Put(USER_CHARACTER_DATA, u, ImportedChar(base_char, parsed.dict)),
                    Ret("import", u, params, TRUE, "",
                        [is_auto_create |-> u \notin DOMAIN USER_CHARACTER_DATA,
                         base_char |-> base_char,
                         import_attr_dict |-> parsed.dict]))

(***************************************************************************)
(* get_single_skill_value and the check command: lines 480-493, 768-898    *)
(***************************************************************************)
\* get_single_skill_value(skill_name, char_data): (exists, value)
get_single_skill_value(skill_name, char_data) ==
    IF skill_name \in BASE_ATTR_NAMES
    THEN [exists |-> TRUE, value |-> Get(char_data, BASE_ATTR_TO_SHORT[skill_name], IntV(0))]
    ELSE IF skill_name \in DOMAIN char_data /\ skill_name \notin ExcludeKeys
    THEN [exists |-> TRUE, value |-> char_data[skill_name]]
    ELSE [exists |-> FALSE, value |-> IntV(0)]

\* config["dice"]["success_threshold"] and ["fail_threshold"]: the defaults
success_threshold == 5

fail_threshold == 96

\* the verdict with the critical-failure test moved before the success test
JudgeCheckFailFirst(total, check_threshold) ==
    IF total <= success_threshold THEN "critical_success"
    ELSE IF total >= fail_threshold THEN "critical_failure"
    ELSE IF total <= check_threshold THEN "success"
    ELSE "failure"

\* the verdict with the success test moved before the critical-success test
JudgeCheckSuccessFirst(total, check_threshold) ==
    IF total <= check_threshold THEN "success"
    ELSE IF total <= success_threshold THEN "critical_success"
    ELSE IF total >= fail_threshold THEN "critical_failure"
    ELSE "failure"

\* lines 853-860: the verdict of a check
JudgeCheck(total, check_threshold) ==
    IF total <= success_threshold THEN "critical_success"
    ELSE IF total <= check_threshold THEN "success"
    ELSE IF total >= fail_threshold THEN "critical_failure"
    ELSE "failure"

\* line 786: ^([^\+\-]+)([\+\-]\d+)$ matched against first_param; name is group 1
\* and modifier_str group 2
ModMatch(first_param) ==
    LET plus == FindChar(first_param, "+", 1)
        minus == FindChar(first_param, "-", 1)
        sign == IF plus = 0 THEN minus ELSE IF minus = 0 THEN plus ELSE Min(plus, minus)
    IN  IF sign > 1 /\ IsDigitStr(SubSeq(first_param, sign + 1, Len(first_param)))
        THEN [matched |-> TRUE,
              name |-> SubSeq(first_param, 1, sign - 1),
              modifier_str |-> SubSeq(first_param, sign, Len(first_param))]
        ELSE [matched |-> FALSE, name |-> <<>>, modifier_str |-> <<>>]

\* lines 779-847: the threshold a check resolves to, or the error it returns with
CheckThreshold(u, first_param) ==
    LET m == ModMatch(first_param)
        attr_name == IF m.matched THEN Join(Strip(m.name)) ELSE Join(first_param)
        found == get_single_skill_value(attr_name, USER_CHARACTER_DATA[u])
        base_value == found.value.int
        fail(err) == [ok |-> FALSE, err |-> err, mode |-> "", threshold |-> 0]
    IN  IF m.matched
        THEN IF u \notin DOMAIN USER_CHARACTER_DATA THEN fail("NoCharacter")
             ELSE IF ~found.exists THEN fail("AttributeNotFound")
             ELSE IF ~IsInt(found.value) THEN fail("Exception")
             ELSE IF base_value + IntOf(m.modifier_str).val < 0
                     \/ base_value + IntOf(m.modifier_str).val > 199
             THEN fail("ThresholdOutOfRange")
             ELSE [ok |-> TRUE, err |-> "", mode |-> "modifier",
                   threshold |-> base_value + IntOf(m.modifier_str).val]
        ELSE IF IsDigitStr(first_param)
        THEN IF DigitsVal(first_param) < 0 \/ DigitsVal(first_param) > 199
             THEN fail("ThresholdOutOfRange")
             ELSE [ok |-> TRUE, err |-> "", mode |-> "literal",
                   threshold |-> DigitsVal(first_param)]
        ELSE IF u \notin DOMAIN USER_CHARACTER_DATA THEN fail("NoCharacter")
             ELSE IF ~found.exists THEN fail("AttributeNotFound")
             ELSE IF ~IsInt(found.value) \/ base_value < 0 \/ base_value > 200
             THEN fail("ValueAbnormal")
             ELSE [ok |-> TRUE, err |-> "", mode |-> "attribute", threshold |-> base_value]

CheckCmd(u, params) ==
    LET first_param == split_check_params(params)[1]
        t == CheckThreshold(u, first_param)
    IN  IF first_param = <<>>
        THEN Return(Ret("check", u, params, FALSE, "MissingParameter", NoInfo))
        ELSE IF ~t.ok
        THEN Return(Ret("check", u, params, FALSE, t.err, NoInfo))
        ELSE \E total \in roll_dice(1, 100, 0) :
                Return(Ret("check", u, params, TRUE, "",
                           [mode |-> t.mode, threshold |-> t.threshold, roll |-> total,
                            judge_result |-> JudgeCheck(total, t.threshold)]))

(***************************************************************************)
(* the sanity check: lines 901-984                                         *)
(***************************************************************************)
\* the success test with the tie counted as a success
SanSuccessInclusive(roll_result, current_san) == roll_result <= current_san

\* line 940: if roll_result < current_san
SanSuccess(roll_result, current_san) == roll_result < current_san

\* the new SAN without its floor
AfterSanNoFloor(before_san, deduct_value) == before_san - deduct_value

\* line 950: after_san = max(before_san - deduct_value, 0)
AfterSan(before_san, deduct_value) == Max(before_san - deduct_value, 0)

SanCheckCmd(u, params) ==
    LET rule_part == split_check_params(params)[1]
        slash == FindChar(rule_part, "/", 1)
        success_deduct_expr == Strip(SubSeq(rule_part, 1, slash - 1))
        fail_deduct_expr == Strip(SubSeq(rule_part, slash + 1, Len(rule_part)))
        user_char == USER_CHARACTER_DATA[u]
        current_san == Get(user_char, "SAN", IntV(0)).int
        fail(err) == Return(Ret("san_check", u, params, FALSE, err, NoInfo))
    IN  IF Strip(params) = <<>> THEN fail("MissingParameter")
        ELSE IF rule_part = <<>> \/ slash = 0 THEN fail("MalformedRule")
        ELSE IF u \notin DOMAIN USER_CHARACTER_DATA THEN fail("NoCharacter")
        ELSE IF current_san <= 0 THEN fail("SanAlreadyZero")
        ELSE \E roll_result \in roll_dice(1, 100, 0) :
            LET success == SanSuccess(roll_result, current_san)
                expr == IF success THEN success_deduct_expr ELSE fail_deduct_expr
            IN  \E deduct \in parse_san_deduct_value(expr) :
                    IF ~deduct.ok
                    THEN Return(Ret("san_check", u, params, FALSE, "Exception",
                                    [roll_result |-> roll_result, evaluated |-> expr,
                                     before_san |-> current_san]))
                    ELSE LET after_san == AfterSan(current_san, deduct.val)
                         IN  WriteSaveReturn(
                                 Put(USER_CHARACTER_DATA, u,
                                     WithTotal(Put(user_char, "SAN", IntV(after_san)))),
                                 Ret("san_check", u, params, TRUE, "",
                                     [roll_result |-> roll_result,
                                      judge_result |-> IF success THEN "success" ELSE "failure",
                                      evaluated |-> expr,
                                      deduct_value |-> deduct.val,
                                      before_san |-> current_san,
                                      after_san |-> after_san]))

(***************************************************************************)
(* delete-attribute: lines 496-526 and 987-1022                            *)
(***************************************************************************)
\* a reset that removes the short-code key instead of assigning it
ResetBaseAttrRemoving(user_char, short_name, new_value) == Del(user_char, short_name)

\* line 507: user_char[short_name] = new_value
ResetBaseAttr(user_char, short_name, new_value) == Put(user_char, short_name, IntV(new_value))

\* the second branch without its exclusions
IsCustomSkillAnyKey(attr_name, user_char) == attr_name \in DOMAIN user_char

\* line 515: the condition of the custom-skill branch
IsCustomSkill(attr_name, user_char) ==
    /\ attr_name \in DOMAIN user_char
    /\ attr_name \notin SHORT_TO_BASE_ATTR
    /\ attr_name \notin {TOTAL, "<zong><shu><xing3>", NICK}

\* a reset that derives DB, DODGE and MOV from the record's own STR, SIZ and DEX
ResetValuesFromSheet(user_char, attr_name) ==
    LET str_val == Get(user_char, "STR", IntV(0)).int
        siz_val == Get(user_char, "SIZ", IntV(0)).int
        dex_val == Get(user_char, "DEX", IntV(0)).int
    IN  CASE BASE_ATTR_TO_SHORT[attr_name] = "DB" -> calculate_damage_bonus(str_val, siz_val)
          [] BASE_ATTR_TO_SHORT[attr_name] = "DODGE" -> {calculate_dodge(dex_val)}
          [] BASE_ATTR_TO_SHORT[attr_name] = "MOV" ->
                {calculate_movement(dex_val, str_val, siz_val)}
          [] OTHER -> generate_single_base_attr(attr_name)

\* line 506: new_value = generate_single_base_attr(attr_name), which is not given
\* the record
ResetValues(user_char, attr_name) == generate_single_base_attr(attr_name)

\* delete_character_attribute(user_id, attr_name): its possible results
delete_character_attribute(u, attr_name) ==
    IF u \notin DOMAIN USER_CHARACTER_DATA
    THEN {[success |-> FALSE, err |-> "NoCharacter", user_char |-> EmptyDict]}
    ELSE LET user_char == USER_CHARACTER_DATA[u]
         IN  IF attr_name \in BASE_ATTR_NAMES
             THEN {[success |-> TRUE, err |-> "",
                    user_char |-> WithTotal(ResetBaseAttr(user_char,
                                                          BASE_ATTR_TO_SHORT[attr_name],
                                                          new_value))]
                   : new_value \in ResetValues(user_char, attr_name)}
             ELSE IF IsCustomSkill(attr_name, user_char)
             THEN {[success |-> TRUE, err |-> "",
                    user_char |-> WithTotal(Del(user_char, attr_name))]}
             ELSE {[success |-> FALSE, err |-> "NotFound", user_char |-> user_char]}

DeleteAttrCmd(u, params) ==
    LET attr_name == Strip(params)
    IN  IF attr_name = <<>>
        THEN Return(Ret("delete", u, params, FALSE, "MissingParameter", NoInfo))
        ELSE \E r \in delete_character_attribute(u, Join(attr_name)) :
                IF r.success
                THEN WriteSaveReturn(Put(USER_CHARACTER_DATA, u, r.user_char),
                                     Ret("delete", u, params, TRUE, "",
                                         [total |-> CoreSum(r.user_char)]))
                ELSE Return(Ret("delete", u, params, FALSE, r.err, NoInfo))

(***************************************************************************)
(* query-character, query-skill: lines 336-340, 469-476, 1080-1157         *)
(***************************************************************************)
\* the nickname of the platform whatever the record holds
get_character_nicknamePlatform(u) == StrV(user_nickname(u))

\* get_character_nickname(user_id, user_nickname): the nickname the messages of a
\* command show, read when the command begins
get_character_nickname(u) ==
    IF u \in DOMAIN USER_CHARACTER_DATA /\ NICK \in DOMAIN USER_CHARACTER_DATA[u]
    THEN USER_CHARACTER_DATA[u][NICK]
    ELSE StrV(user_nickname(u))

\* get_character_skills(char_data): the keys it lists
get_character_skills(char_data) == DOMAIN char_data \ ExcludeKeys

QueryCharacterCmd(u, params) ==
    IF params # <<>>
    THEN Return(Ret("query_character", u, params, FALSE, "NoParametersAllowed", NoInfo))
    ELSE IF u \notin DOMAIN USER_CHARACTER_DATA
    THEN Return(Ret("query_character", u, params, FALSE, "NoCharacter", NoInfo))
    ELSE Return(Ret("query_character", u, params, TRUE, "",
                    [nickname |-> FormatValue(get_character_nickname(u)),
                     base_total |-> CoreSum(USER_CHARACTER_DATA[u])]))

QuerySkillCmd(u, params) ==
    LET skill_name == Strip(params)
        found == get_single_skill_value(Join(skill_name), USER_CHARACTER_DATA[u])
    IN  IF u \notin DOMAIN USER_CHARACTER_DATA
        THEN Return(Ret("query_skill", u, params, FALSE, "NoCharacter", NoInfo))
        ELSE IF skill_name = <<>>
        THEN Return(Ret("query_skill", u, params, TRUE, "",
                        [nickname |-> FormatValue(get_character_nickname(u)),
                         skills |-> get_character_skills(USER_CHARACTER_DATA[u])]))
        ELSE IF found.exists
        THEN Return(Ret("query_skill", u, params, TRUE, "",
                        [nickname |-> FormatValue(get_character_nickname(u)),
                         skill_value |-> found.value]))
        ELSE Return(Ret("query_skill", u, params, FALSE, "SkillNotFound", NoInfo))

(***************************************************************************)
(* the roll command: lines 1160-1204                                       *)
(***************************************************************************)
\* the verdict attached whatever the dice are
RollVerdictAnyDice(count, face, total) ==
    IF total <= success_threshold THEN "critical_success"
    ELSE IF total >= fail_threshold THEN "critical_failure"
    ELSE ""

\* lines 1176-1181: the verdict attached to a roll ("" when none is)
RollVerdict(count, face, total) ==
    IF face = 100 /\ count = 1
    THEN IF total <= success_threshold THEN "critical_success"
         ELSE IF total >= fail_threshold THEN "critical_failure"
         ELSE ""
    ELSE ""

RollCmd(u, params) ==
    LET dice_expr == split_check_params(params)[1]
        d == parse_dice_expression(dice_expr)
    IN  IF dice_expr = <<>>
        THEN Return(Ret("roll", u, params, FALSE, "MissingParameter", NoInfo))
        ELSE IF ~d.ok
        THEN Return(Ret("roll", u, params, FALSE, d.err, NoInfo))
        ELSE \E total \in roll_dice(d.count, d.face, d.modifier) :
                Return(Ret("roll", u, params, TRUE, "",
                           [count |-> d.count, face |-> d.face, modifier |-> d.modifier,
                            total |-> total,
                            judge_result |-> RollVerdict(d.count, d.face, total)]))

(***************************************************************************)
(* The host: it takes the handler's return value and waits for a message.  *)
(***************************************************************************)
NextMessage ==
    /\ ~Idle
    /\ ret' = Ret("none", "", <<>>, TRUE, "", NoInfo)
    /\ UNCHANGED <<USER_CHARACTER_DATA, file, writes, faults, running>>

(***************************************************************************)
(* Inputs and specifications.                                              *)
(***************************************************************************)
CheckParams ==
    { <<"0">>, <<"1", "9", "9">>, <<"2", "0", "0">>,
      <<"<li>", "<liang>">>, <<"<li>", "<liang>", "+", "0">>,
      <<"<li>", "<liang>", "+", "1", "0", " ", "r">>,
      <<"<shang>", "<hai>", "<jia>", "<zhi4>">>,
      <<"<gan>", "<zhi5>">>, <<"s", "t", "r">>, <<>> }

SanCheckParams ==
    { <<"1", "d", "5", "/", "1", "d", "6">>,
      <<"-", "-", "5", "/", "3">>,
      <<"0", "/", "x">>,
      <<"5">>,
      <<>> }

DeleteAttrParams ==
    { <<"<li>", "<liang>">>, <<"<li2>", "<zhi>">>, <<"<gan>", "<zhi5>">>,
      <<"<ni>", "<cheng>">>, <<>> }

\* on_plugin_stop: lines 1272-1276
PluginStop ==
    /\ Idle
    /\ Save(USER_CHARACTER_DATA)
    /\ UNCHANGED <<USER_CHARACTER_DATA, ret, writes, running>>

\* The store: every command that writes it, by two users, from the empty store.
Next ==
    \/ \E u \in Users : \E params \in CreateParams(u) : CreateCharacter(u, params)
    \/ \E u \in Users : \E params \in DeleteCharacterParams(u) : DeleteCharacterCmd(u, params)
    \/ \E u \in Actors, params \in RenameParams : RenameCmd(u, params)
    \/ \E u \in Actors, params \in ImportParams : ImportCmd(u, params)
    \/ \E u \in Actors, params \in SanCheckParams : SanCheckCmd(u, params)
    \/ \E u \in Actors, params \in DeleteAttrParams : DeleteAttrCmd(u, params)
    \/ PluginStop
    \/ NextMessage

Spec == Init /\ [][Next]_vars

\* Import: the import of every text of ImportTexts, on a missing and on an existing
\* record.
NextImport ==
    \/ \E u \in Actors : CreateCharacter(u, <<>>)
    \/ \E u \in Actors : DeleteCharacterCmd(u, <<>>)
    \/ \E u \in Actors, params \in ImportTexts : ImportCmd(u, params)
    \/ NextMessage

SpecImport == Init /\ [][NextImport]_vars

\* Deletion: delete-attribute on base attributes, custom skills, reserved keys,
\* short codes and missing names, on a missing and on an existing record.
DeleteImports ==
    { <<"<gan>", "<zhi5>", "3", "d", "1", "0", "0", " ", "<ni>", "<cheng>", "5">>,
      <<"<li>", "<liang>", "8", "0", "<min>", "<jie>", "7", "5">> }

DeleteNames ==
    { <<"<li>", "<liang>">>, <<"<shan>", "<bi>">>, <<"<shang>", "<hai>", "<jia>", "<zhi4>">>,
      <<"<gan>", "<zhi5>">>, <<"<dian>", "<nao>">>,
      <<"<ni>", "<cheng>">>, <<"<ji>", "<chu>", "<zong>", "<shu>", "<xing3>">>,
      <<"S", "T", "R">>, <<>> }

NextDelete ==
    \/ \E u \in Actors : CreateCharacter(u, <<>>)
    \/ \E u \in Actors, params \in DeleteImports : ImportCmd(u, params)
    \/ \E u \in Actors, params \in DeleteNames : DeleteAttrCmd(u, params)
    \/ NextMessage

SpecDelete == Init /\ [][NextDelete]_vars

\* Reset: delete-attribute on each of the fifteen base attributes, on a generated
\* record and on one whose STR and DEX an import has set outside the generated range.
ResetImports == { <<"<li>", "<liang>", "2", "0", "0", "<min>", "<jie>", "4">> }

ResetNames ==
    { <<"<sheng>", "<ming>">>, <<"<mo>", "<li>">>, <<"<li2>", "<zhi>">>,
      <<"<li>", "<liang>">>, <<"<ti>", "<zhi2>">>, <<"<ti>", "<xing>">>,
      <<"<min>", "<jie>">>, <<"<wai>", "<mao>">>, <<"<zhi>", "<li>">>,
      <<"<yi>", "<zhi3>">>, <<"<jiao>", "<yu>">>, <<"<xing2>", "<yun>">>,
      <<"<shang>", "<hai>", "<jia>", "<zhi4>">>, <<"<shan>", "<bi>">>,
      <<"<yi2>", "<dong>", "<li>">> }

NextReset ==
    \/ \E u \in Actors : CreateCharacter(u, <<>>)
    \/ \E u \in Actors, params \in ResetImports : ImportCmd(u, params)
    \/ \E u \in Actors, params \in ResetNames : DeleteAttrCmd(u, params)
    \/ NextMessage

SpecReset == Init /\ [][NextReset]_vars

\* Life of a record: one user's record created, imported, renamed and deleted, and
\* the commands that need a record issued with and without one.
LifeRenames == {<<"N", "e", "o">>, <<"Z", " ", "o">>, <<"X", "<arrow>", "Y">>, <<>>}

LifeChecks == {<<"<li>", "<liang>">>, <<"<li>", "<liang>", "+", "0">>, <<"5", "0">>}

LifeSanChecks == {<<"1", "/", "2">>, <<"5">>}

LifeDeletes == {<<"<li>", "<liang>">>, <<>>}

LifeQueries == {<<>>, <<"<li>", "<liang>">>, <<"<gan>", "<zhi5>">>}

NextLife ==
    \/ \E u \in Actors : \E params \in CreateParams(u) : CreateCharacter(u, params)
    \/ \E u \in Actors : ImportCmd(u, <<"<li>", "<liang>", "8", "0", "<min>", "<jie>", "7", "5">>)
    \/ \E u \in Actors : DeleteCharacterCmd(u, <<>>)
    \/ \E u \in Actors, params \in LifeRenames : RenameCmd(u, params)
    \/ \E u \in Actors, params \in LifeChecks : CheckCmd(u, params)
    \/ \E u \in Actors, params \in LifeSanChecks : SanCheckCmd(u, params)
    \/ \E u \in Actors, params \in LifeDeletes : DeleteAttrCmd(u, params)
    \/ \E u \in Actors, params \in {<<>>, <<"x">>} : QueryCharacterCmd(u, params)
    \/ \E u \in Actors, params \in LifeQueries : QuerySkillCmd(u, params)
    \/ NextMessage

SpecLife == Init /\ [][NextLife]_vars

\* Rolls: the roll command on the expressions [count]d<face>[+-modifier] of
\* RollExprs, and on texts that are no expression.
RollCounts == {<<>>, <<"1">>, <<"2">>, <<"0">>}

RollFaces == {<<"6">>, <<"5", "0">>, <<"1", "0", "0">>, <<"1", "0", "0", "1">>}

RollModifiers == {<<>>, <<"+", "9", "5">>, <<"-", "9", "5">>, <<"+", "0">>, <<"-", "1">>}

RollExprs == {c \o <<"d">> \o f \o m : c \in RollCounts, f \in RollFaces, m \in RollModifiers}

RollParams == RollExprs \cup {<<"D", "1", "0", "0", " ", "r">>, <<"1", "0", "0">>, <<>>}

NextRoll ==
    \/ \E u \in Actors, params \in RollParams : RollCmd(u, params)
    \/ NextMessage

SpecRoll == Init /\ [][NextRoll]_vars

\* Checks: the check command in its three modes, on the records that creation and
\* the imports of CheckImports leave.
CheckImports ==
    { <<"<li>", "<liang>", "2", "0", "0">>,
      <<"<li>", "<liang>", "1", "9", "0", "<gan>", "<zhi5>", "3", "0">>,
      <<"<li>", "<liang>", "0">> }

NextCheck ==
    \/ \E u \in Actors : CreateCharacter(u, <<>>)
    \/ \E u \in Actors, params \in CheckImports : ImportCmd(u, params)
    \/ \E u \in Actors, params \in CheckParams : CheckCmd(u, params)
    \/ NextMessage

SpecCheck == Init /\ [][NextCheck]_vars

\* The verdict of a check as a function of the roll and the threshold: every roll
\* of a d100 against every threshold a check accepts.
JudgeInit ==
    /\ USER_CHARACTER_DATA = EmptyDict
    /\ file = [state |-> "absent", data |-> EmptyDict]
    /\ writes = 0
    /\ faults = 0
    /\ running = NoRunning
    /\ \E total \in 1..100, check_threshold \in 0..200 :
          ret = Ret("judge_input", "", <<>>, TRUE, "",
                    [roll |-> total, threshold |-> check_threshold])

Judge ==
    /\ ret.cmd = "judge_input"
    /\ ret' = Ret("judge", "", <<>>, TRUE, "",
                  [roll |-> ret.info.roll, threshold |-> ret.info.threshold,
                   judge_result |-> JudgeCheck(ret.info.roll, ret.info.threshold)])
    /\ UNCHANGED <<USER_CHARACTER_DATA, file, writes, faults, running>>

SpecJudge == JudgeInit /\ [][Judge]_vars

(***************************************************************************)
(* Two handlers of one user in flight at once: import (lines 715-765) and  *)
(* sanity check (lines 901-984).  Each copies the record (lines 726, 932), *)
(* works on the copy, assigns the copy to the store and saves (lines       *)
(* 743-744, 961-962), then awaits send_text and returns.                   *)
(***************************************************************************)
\* How the host runs two handlers at once: as tasks of one event loop, which leaves
\* a handler only at an await, or in threads, which leave it between statements.
DispatchModes == {"tasks", "threads"}

\* the commands dispatched at once
ConcurrentCommands ==
    { [cmd |-> "import", params |-> <<"<li>", "<liang>", "8", "0", "<min>", "<jie>", "7", "5">>],
      [cmd |-> "san_check", params |-> <<"1", "/", "2">>],
      [cmd |-> "san_check", params |-> <<"1", "/", "6", "0">>],
      [cmd |-> "san_check", params |-> <<"5">>] }

\* a handler that has not run yet
NewTask(u, c) ==
    [cmd |-> c.cmd, uid |-> u, params |-> c.params, pc |-> "start",
     user_char |-> EmptyDict, written |-> EmptyDict, wrote |-> FALSE,
     copied_at |-> 0, wrote_at |-> 0, ok |-> TRUE, err |-> ""]

\* the failure a handler returns before it copies the record, "" when there is none:
\* lines 717 and 757 of the import, lines 902-919 of the sanity check
Validate(t) ==
    IF t.cmd = "import"
    THEN IF \E parsed \in parse_import_attr_params(t.params) : parsed.ok
         THEN ""
         ELSE (CHOOSE parsed \in parse_import_attr_params(t.params) : TRUE).err
    ELSE IF Strip(t.params) = <<>> THEN "MissingParameter"
    ELSE IF \/ split_check_params(t.params)[1] = <<>>
            \/ FindChar(split_check_params(t.params)[1], "/", 1) = 0
         THEN "MalformedRule"
    ELSE ""

\* what a handler makes of its copy user_char: write tells whether it goes on to
\* assign the store (lines 728-741 of the import, 933-959 of the sanity check)
TaskOutcomes(t, user_char) ==
    IF t.cmd = "import"
    THEN {[ok |-> TRUE, err |-> "", write |-> TRUE,
           user_char |-> ImportedChar(user_char, parsed.dict)]
          : parsed \in {q \in parse_import_attr_params(t.params) : q.ok}}
    ELSE LET rule_part == split_check_params(t.params)[1]
             slash == FindChar(rule_part, "/", 1)
             success_deduct_expr == Strip(SubSeq(rule_part, 1, slash - 1))
             fail_deduct_expr == Strip(SubSeq(rule_part, slash + 1, Len(rule_part)))
             current_san == Get(user_char, "SAN", IntV(0)).int
         IN  IF current_san <= 0
             THEN {[ok |-> FALSE, err |-> "SanAlreadyZero", write |-> FALSE,
                    user_char |-> user_char]}
             ELSE UNION {
                    {IF deduct.ok
                     THEN [ok |-> TRUE, err |-> "", write |-> TRUE,
                           user_char |-> WithTotal(Put(user_char, "SAN",
                                             IntV(AfterSan(current_san, deduct.val))))]
                     ELSE [ok |-> FALSE, err |-> "Exception", write |-> FALSE,
                           user_char |-> user_char]
                      : deduct \in parse_san_deduct_value(
                                      IF SanSuccess(roll_result, current_san)
                                      THEN success_deduct_expr ELSE fail_deduct_expr)}
                    : roll_result \in roll_dice(1, 100, 0)}

\* an assignment that lays the keys the handler changed over the record the store
\* holds by then
WrittenRecordMerged(current, copy, user_char) ==
    [k \in DOMAIN user_char |->
        IF k \in DOMAIN copy /\ user_char[k] = copy[k] /\ k \in DOMAIN current
        THEN current[k] ELSE user_char[k]]

\* lines 743 and 961: USER_CHARACTER_DATA[user_id] = user_char, the whole copy
WrittenRecord(current, copy, user_char) == user_char

\* the host starts the handlers of two commands of one user, who has a record
Dispatch(u, c1, c2, mode) ==
    /\ Idle
    /\ running.mode = "none"
    /\ u \in DOMAIN USER_CHARACTER_DATA
    /\ running' = [mode |-> mode, clock |-> 0, tasks |-> <<NewTask(u, c1), NewTask(u, c2)>>]
    /\ UNCHANGED <<USER_CHARACTER_DATA, file, ret, writes, faults>>

\* handler i returns a validation failure without copying the record
FailValidation(i) ==
    /\ running' = [running EXCEPT !.tasks[i].pc = "sending",
                                  !.tasks[i].ok = FALSE,
                                  !.tasks[i].err = Validate(running.tasks[i])]
    /\ UNCHANGED <<USER_CHARACTER_DATA, file, ret, writes, faults>>

\* handler i, holding the copy user_char taken at clock value copied_at, runs from
\* after the copy up to its await
FinishFrom(i, user_char, copied_at) ==
    LET t == running.tasks[i]
        now == running.clock + 1
    IN  \E o \in TaskOutcomes(t, user_char) :
            LET written == WrittenRecord(USER_CHARACTER_DATA[t.uid], user_char, o.user_char)
                done == [t EXCEPT !.pc = "sending", !.user_char = user_char,
                                  !.copied_at = copied_at, !.ok = o.ok, !.err = o.err,
                                  !.wrote = o.write,
                                  !.written = IF o.write THEN written ELSE EmptyDict,
                                  !.wrote_at = IF o.write THEN now ELSE 0]
            IN  /\ running' = [running EXCEPT !.clock = now, !.tasks[i] = done]
                /\ UNCHANGED ret
                /\ IF o.write
                   THEN /\ USER_CHARACTER_DATA' = Put(USER_CHARACTER_DATA, t.uid, written)
                        /\ Save(Put(USER_CHARACTER_DATA, t.uid, written))
                        /\ writes' = writes + 1
                   ELSE UNCHANGED <<USER_CHARACTER_DATA, file, writes, faults>>

\* threads: handler i runs up to and including user_char = ...copy()
TakeCopy(i) ==
    /\ running.mode = "threads"
    /\ i \in DOMAIN running.tasks
    /\ running.tasks[i].pc = "start"
    /\ IF Validate(running.tasks[i]) # ""
       THEN FailValidation(i)
       ELSE /\ running' = [running EXCEPT
                              !.clock = running.clock + 1,
                              !.tasks[i].pc = "copied",
                              !.tasks[i].user_char = USER_CHARACTER_DATA[running.tasks[i].uid],
                              !.tasks[i].copied_at = running.clock + 1]
            /\ UNCHANGED <<USER_CHARACTER_DATA, file, ret, writes, faults>>

\* threads: handler i runs from after the copy up to its await
WriteBack(i) ==
    /\ running.mode = "threads"
    /\ i \in DOMAIN running.tasks
    /\ running.tasks[i].pc = "copied"
    /\ FinishFrom(i, running.tasks[i].user_char, running.tasks[i].copied_at)

\* tasks: handler i runs from its start to its first await, which comes after the
\* save (lines 754 and 978)
RunToAwait(i) ==
    /\ running.mode = "tasks"
    /\ i \in DOMAIN running.tasks
    /\ running.tasks[i].pc = "start"
    /\ IF Validate(running.tasks[i]) # ""
       THEN FailValidation(i)
       ELSE FinishFrom(i, USER_CHARACTER_DATA[running.tasks[i].uid], running.clock + 1)

\* await self.send_text(...) is over and handler i returns
Resume(i) ==
    /\ i \in DOMAIN running.tasks
    /\ running.tasks[i].pc = "sending"
    /\ running' = [running EXCEPT !.tasks[i].pc = "done"]
    /\ UNCHANGED <<USER_CHARACTER_DATA, file, ret, writes, faults>>

\* Concurrency: a record is created, then two commands of its user run at once.
NextConcurrent ==
    \/ \E u \in Actors : running.mode = "none" /\ CreateCharacter(u, <<>>)
    \/ \E u \in Actors, c1 \in ConcurrentCommands, c2 \in ConcurrentCommands,
          mode \in DispatchModes : Dispatch(u, c1, c2, mode)
    \/ \E i \in 1..2 : TakeCopy(i)
    \/ \E i \in 1..2 : WriteBack(i)
    \/ \E i \in 1..2 : RunToAwait(i)
    \/ \E i \in 1..2 : Resume(i)
    \/ NextMessage

SpecConcurrent == Init /\ [][NextConcurrent]_vars

(***************************************************************************)
(* Properties.                                                             *)
(***************************************************************************)
\* the sum of the nine core attributes of a record, written out
NineCoreTotal(c) ==
    c["STR"].int + c["CON"].int + c["SIZ"].int + c["DEX"].int + c["APP"].int
    + c["INT"].int + c["POW"].int + c["EDU"].int + c["LUCK"].int

\* the key of a record an imported name is stored under
StoredKey(name) == IF name \in DOMAIN BASE_ATTR_MAP THEN BASE_ATTR_MAP[name] ELSE name

\* C1: in every state reached from the empty store by the commands of any users,
\* every record of the store has its core total equal to the sum of its nine core
\* attributes STR, CON, SIZ, DEX, APP, INT, POW, EDU, LUCK (HP, MP, SAN, DB, DODGE
\* and MOV do not count).
C1_CoreTotalIsNineCoreSum ==
    \A u \in DOMAIN USER_CHARACTER_DATA :
        USER_CHARACTER_DATA[u][TOTAL] = IntV(NineCoreTotal(USER_CHARACTER_DATA[u]))

\* an import has just changed the core total of the record it started from
C1_ImportChangedTotal ==
    /\ ret.cmd = "import"
    /\ ret.ok
    /\ ~ret.info.is_auto_create
    /\ ret.info.base_char[TOTAL] # USER_CHARACTER_DATA[ret.uid][TOTAL]

\* C2: a handler that returns its failure flag has left the in-memory store and
\* the persisted store as they were before the command.
C2_FailureLeavesStore ==
    [][(ret'.cmd # "none" /\ ~ret'.ok)
         => (USER_CHARACTER_DATA' = USER_CHARACTER_DATA /\ file' = file)]_vars

\* C3: the verdict of roll r against threshold t is critical success when
\* r <= successThreshold; otherwise success when r <= t; otherwise critical failure
\* when r >= failThreshold; otherwise failure: one of the four for every r in
\* 1..100 and every t in 0..199.
C3_VerdictOrder ==
    (ret.cmd \in {"judge", "check"} /\ ret.ok /\ ret.info.threshold \in 0..199) =>
        LET r == ret.info.roll
            t == ret.info.threshold
            v == ret.info.judge_result
        IN  /\ r \in 1..100
            /\ v \in {"critical_success", "success", "critical_failure", "failure"}
            /\ v = "critical_success" <=> r <= success_threshold
            /\ v = "success" <=> (r > success_threshold /\ r <= t)
            /\ v = "critical_failure" <=> (r > success_threshold /\ r > t /\ r >= fail_threshold)
            /\ v = "failure" <=> (r > success_threshold /\ r > t /\ r < fail_threshold)

\* a roll within both the critical-success range and the threshold was judged
C3_CriticalSuccessWithinThreshold ==
    /\ ret.cmd = "judge"
    /\ ret.info.roll = 3
    /\ ret.info.threshold = 50
    /\ ret.info.judge_result = "critical_success"

\* C4 as stated: for every threshold t in 0..199 a roll
\* r >= failThreshold is judged critical failure and a roll r <= successThreshold
\* critical success, whether or not r <= t.
C4_CriticalAlwaysFirst ==
    (ret.cmd = "judge" /\ ret.info.threshold \in 0..199) =>
        /\ ret.info.roll >= fail_threshold => ret.info.judge_result = "critical_failure"
        /\ ret.info.roll <= success_threshold => ret.info.judge_result = "critical_success"

\* C4 as it holds: for every threshold t in 0..199 a roll r <= successThreshold is
\* judged critical success whether or not r <= t, and a roll r >= failThreshold
\* above successThreshold is judged critical failure when r > t and success when
\* r <= t.
C4_CriticalSuccessFirst ==
    (ret.cmd = "judge" /\ ret.info.threshold \in 0..199) =>
        LET r == ret.info.roll
            t == ret.info.threshold
        IN  /\ r <= success_threshold => ret.info.judge_result = "critical_success"
            /\ (r >= fail_threshold /\ r > success_threshold) =>
                   ret.info.judge_result = IF r <= t THEN "success" ELSE "critical_failure"

\* a roll in the critical-failure range and within the threshold was judged
C4_FailRangeWithinThreshold ==
    /\ ret.cmd = "judge"
    /\ ret.info.roll = 97
    /\ ret.info.threshold = 99
    /\ ret.info.judge_result = "success"

\* C5: in each of the three check modes the value the roll is compared against
\* lies in [0,199]; a check whose value lies outside makes no roll.
C5_ThresholdWithin199 ==
    (ret.cmd = "check" /\ ret.ok) => ret.info.threshold \in 0..199

\* C6: a check given a literal threshold is accepted only when the threshold is in
\* 1..199; a literal 0 is rejected and no roll is made.
C6_LiteralThresholdFrom1 ==
    (ret.cmd = "check" /\ ret.ok /\ ret.info.mode = "literal") =>
        ret.info.threshold \in 1..199

\* C7: a sanity check that passes validation sets the user's SAN to
\* max(before - deduct, 0), before being the SAN the store held when the command
\* began, recomputes the core total and saves (the file holds the new store unless
\* the write failed); and in every state reached from the empty store no record
\* has a negative SAN.
C7_SanFloor ==
    /\ [](\A u \in DOMAIN USER_CHARACTER_DATA : USER_CHARACTER_DATA[u]["SAN"].int >= 0)
    /\ [][(ret'.cmd = "san_check" /\ ret'.ok) =>
            LET before == USER_CHARACTER_DATA[ret'.uid]["SAN"].int
                new == USER_CHARACTER_DATA'[ret'.uid]
            IN  /\ ret'.info.deduct_value >= 0
                /\ new["SAN"].int = (IF before - ret'.info.deduct_value > 0
                                     THEN before - ret'.info.deduct_value ELSE 0)
                /\ new[TOTAL].int = NineCoreTotal(new)
                /\ \/ file' = [state |-> "written", data |-> USER_CHARACTER_DATA']
                   \/ faults' = faults + 1]_vars

\* a sanity check deducted more than the SAN that was left
C7_DeductionBeyondSan ==
    /\ ret.cmd = "san_check"
    /\ ret.ok
    /\ ret.info.before_san - ret.info.deduct_value < 0
    /\ USER_CHARACTER_DATA[ret.uid]["SAN"].int = 0

\* C8: in a sanity check with SAN s > 0 and roll r, r < s takes the success path and
\* deducts the value of the expression before the slash, every r >= s (r = s too)
\* takes the failure path and deducts the value of the expression after it, and
\* only the expression of the path taken is evaluated: on the rule --5/3, whose
\* first expression raises when evaluated, the check fails exactly when r < s.
C8_SanPaths ==
    [][(ret'.cmd = "san_check" /\ "roll_result" \in DOMAIN ret'.info) =>
         LET rule == split_check_params(ret'.params)[1]
             slash == FindChar(rule, "/", 1)
             before_slash == Strip(SubSeq(rule, 1, slash - 1))
             after_slash == Strip(SubSeq(rule, slash + 1, Len(rule)))
             r == ret'.info.roll_result
             s == USER_CHARACTER_DATA[ret'.uid]["SAN"].int
             taken == IF r < s THEN before_slash ELSE after_slash
         IN  /\ s > 0
             /\ ret'.info.evaluated = taken
             /\ ret'.ok =>
                  /\ ret'.info.judge_result = (IF r < s THEN "success" ELSE "failure")
                  /\ [ok |-> TRUE, val |-> ret'.info.deduct_value]
                         \in parse_san_deduct_value(taken)
                  /\ USER_CHARACTER_DATA'[ret'.uid]["SAN"].int
                         = Max(s - ret'.info.deduct_value, 0)
             /\ ~ret'.ok => [ok |-> FALSE, val |-> 0] \in parse_san_deduct_value(taken)
             /\ ret'.params = <<"-", "-", "5", "/", "3">> =>
                  /\ ret'.ok <=> r >= s
                  /\ ret'.ok => ret'.info.deduct_value = 3]_vars

\* a roll equal to the SAN took the failure path
C8_TieTakesFailurePath ==
    /\ ret.cmd = "san_check"
    /\ ret.ok
    /\ ret.info.roll_result = ret.info.before_san
    /\ ret.info.judge_result = "failure"
    /\ ret.info.evaluated = <<"3">>

\* C9: an import by a user without a record starts from a complete record of the
\* default generation, an import by a user with a record from that record; it sets
\* the attributes named in the text to their parsed values, and every other key of
\* that user except the core total keeps the value it had before the pairs were
\* applied; the records of the other users stay as they were.
C9_ImportFrame ==
    [][(ret'.cmd = "import" /\ ret'.ok) =>
         LET u == ret'.uid
             pairs == ret'.info.import_attr_dict
             named == {StoredKey(pairs[i].name) : i \in DOMAIN pairs}
             new == USER_CHARACTER_DATA'[u]
             Framed(base) ==
                 /\ DOMAIN new = DOMAIN base \cup named
                 /\ \A k \in DOMAIN base \ (named \cup {TOTAL}) : new[k] = base[k]
                 /\ \A i \in DOMAIN pairs :
                        StoredKey(pairs[i].name) # TOTAL =>
                            new[StoredKey(pairs[i].name)] = IntV(pairs[i].value)
         IN  /\ [ok |-> TRUE, err |-> "", dict |-> pairs]
                    \in parse_import_attr_params(ret'.params)
             /\ IF u \in DOMAIN USER_CHARACTER_DATA
                THEN Framed(USER_CHARACTER_DATA[u])
                ELSE \E base \in generate_character_attributes(user_nickname(u)) :
                         DOMAIN base = SHORT_TO_BASE_ATTR \cup {NICK, TOTAL} /\ Framed(base)
             /\ DOMAIN USER_CHARACTER_DATA' = DOMAIN USER_CHARACTER_DATA \cup {u}
             /\ \A w \in DOMAIN USER_CHARACTER_DATA \ {u} :
                    USER_CHARACTER_DATA'[w] = USER_CHARACTER_DATA[w]]_vars

\* a user without a record imported STR 80 and DEX 75
C9_FreshImport ==
    /\ ret.cmd = "import"
    /\ ret.ok
    /\ ret.info.is_auto_create
    /\ ret.params = <<"<li>", "<liang>", "8", "0", "<min>", "<jie>", "7", "5">>
    /\ USER_CHARACTER_DATA[ret.uid]["STR"] = IntV(80)
    /\ USER_CHARACTER_DATA[ret.uid]["DEX"] = IntV(75)
    /\ USER_CHARACTER_DATA[ret.uid]["CON"] = ret.info.base_char["CON"]

\* C10: every value an import stores is max(0, min(200, v)) of the value v written
\* or rolled: a negative literal is stored as 0, a literal above 200 as 200, a dice
\* total as the total clamped, and no stored value lies outside [0,200].
C10_ImportClamp ==
    (ret.cmd = "import" /\ ret.ok) =>
        LET new == USER_CHARACTER_DATA[ret.uid]
            pairs == ret.info.import_attr_dict
        IN  /\ \A i \in DOMAIN pairs :
                   /\ pairs[i].value \in 0..200
                   /\ StoredKey(pairs[i].name) # TOTAL =>
                          new[StoredKey(pairs[i].name)] = IntV(pairs[i].value)
            /\ ret.params = <<"<li2>", "<zhi>", "1", " ", "<min>", "<jie>", "-", "5">> =>
                   new["SAN"] = IntV(1) /\ new["DEX"] = IntV(0)
            /\ ret.params = <<"<li>", "<liang>", "6", "0", "S", "T", "R", "2", "5", "0">> =>
                   new["STR"] = IntV(200)
            /\ ret.params = <<"<gan>", "<zhi5>", "3", "d", "1", "0", "0", " ",
                              "<ni>", "<cheng>", "5">> =>
                   \E v \in roll_dice(3, 100, 0) :
                       new["<gan><zhi5>"] = IntV(IF v > 200 THEN 200 ELSE IF v < 0 THEN 0 ELSE v)

\* an import stored a dice total above 200 as 200
C10_DiceTotalClamped ==
    /\ ret.cmd = "import"
    /\ ret.ok
    /\ "<gan><zhi5>" \in DOMAIN USER_CHARACTER_DATA[ret.uid]
    /\ USER_CHARACTER_DATA[ret.uid]["<gan><zhi5>"] = IntV(200)

\* C11: a successful delete-attribute on a base attribute name leaves the key set
\* of the record as it was (the short-code key stays), one on a custom skill removes
\* that key and no other; in both cases every other key except the core total keeps
\* its value.
C11_DeleteFrame ==
    [][(ret'.cmd = "delete" /\ ret'.ok) =>
         LET u == ret'.uid
             name == Join(Strip(ret'.params))
             old == USER_CHARACTER_DATA[u]
             new == USER_CHARACTER_DATA'[u]
         IN  /\ u \in DOMAIN USER_CHARACTER_DATA
             /\ IF name \in DOMAIN BASE_ATTR_MAP
                THEN /\ DOMAIN new = DOMAIN old
                     /\ BASE_ATTR_MAP[name] \in DOMAIN new
                     /\ \A k \in DOMAIN old \ {BASE_ATTR_MAP[name], TOTAL} : new[k] = old[k]
                ELSE /\ name \in DOMAIN old
                     /\ DOMAIN new = DOMAIN old \ {name}
                     /\ \A k \in DOMAIN new \ {TOTAL} : new[k] = old[k]]_vars

\* a custom skill was deleted from a record that keeps what was imported with it
C11_CustomSkillDeleted ==
    /\ ret.cmd = "delete"
    /\ ret.ok
    /\ ret.params = <<"<gan>", "<zhi5>">>
    /\ "<gan><zhi5>" \notin DOMAIN USER_CHARACTER_DATA[ret.uid]
    /\ USER_CHARACTER_DATA[ret.uid][NICK] = IntV(5)

\* C12: delete-attribute fails with NoCharacter when the user has no record and with
\* NotFound when the name is no base attribute name and no custom skill key of the
\* record (a reserved key or a short code is not found); a failed delete-attribute
\* leaves the store and the file as they were.
C12_DeleteFailures ==
    [][(ret'.cmd = "delete" /\ Strip(ret'.params) # <<>>) =>
         LET u == ret'.uid
             name == Join(Strip(ret'.params))
             shorts == {BASE_ATTR_MAP[n] : n \in DOMAIN BASE_ATTR_MAP}
         IN  /\ u \notin DOMAIN USER_CHARACTER_DATA =>
                    ~ret'.ok /\ ret'.err = "NoCharacter"
             /\ (/\ u \in DOMAIN USER_CHARACTER_DATA
                 /\ name \notin DOMAIN BASE_ATTR_MAP
                 /\ \/ name \notin DOMAIN USER_CHARACTER_DATA[u]
                    \/ name \in shorts \cup {NICK, TOTAL})
                  => ~ret'.ok /\ ret'.err = "NotFound"
             /\ ~ret'.ok => /\ ret'.err \in {"NoCharacter", "NotFound"}
                            /\ USER_CHARACTER_DATA' = USER_CHARACTER_DATA
                            /\ file' = file
                            /\ writes' = writes]_vars

\* a delete-attribute naming a short code was refused on a record that holds it
C12_ShortCodeNotFound ==
    /\ ret.cmd = "delete"
    /\ ~ret.ok
    /\ ret.err = "NotFound"
    /\ ret.params = <<"S", "T", "R">>
    /\ "STR" \in DOMAIN USER_CHARACTER_DATA[ret.uid]

\* C13: delete-character removes the whole record of the user and saves, and fails
\* with NoCharacter when there is none; while a user has no record, each of their
\* commands that needs one (check by name, sanity check, delete-attribute, rename,
\* query-character, query-skill, when well-formed) fails with NoCharacter and
\* changes nothing, and only create-character or import gives the user a record
\* again.
C13_DeletedUntilCreated ==
    [][ret'.cmd # "none" =>
         LET u == ret'.uid
             absent == u \notin DOMAIN USER_CHARACTER_DATA
             first == split_check_params(ret'.params)[1]
             needs == \/ ret'.cmd = "check" /\ first # <<>> /\ ~IsDigitStr(first)
                      \/ ret'.cmd = "san_check" /\ FindChar(first, "/", 1) > 0
                      \/ ret'.cmd \in {"delete", "rename"} /\ Strip(ret'.params) # <<>>
                      \/ ret'.cmd = "query_character" /\ ret'.params = <<>>
                      \/ ret'.cmd = "query_skill"
         IN  /\ (ret'.cmd = "delete_character" /\ ret'.params = <<>>) =>
                   IF absent
                   THEN ~ret'.ok /\ ret'.err = "NoCharacter" /\ UNCHANGED USER_CHARACTER_DATA
                   ELSE /\ ret'.ok
                        /\ DOMAIN USER_CHARACTER_DATA' = DOMAIN USER_CHARACTER_DATA \ {u}
                        /\ \A w \in DOMAIN USER_CHARACTER_DATA' :
                               USER_CHARACTER_DATA'[w] = USER_CHARACTER_DATA[w]
                        /\ \/ file' = [state |-> "written", data |-> USER_CHARACTER_DATA']
                           \/ faults' = faults + 1
             /\ (absent /\ needs) =>
                   /\ ~ret'.ok
                   /\ ret'.err = "NoCharacter"
                   /\ UNCHANGED <<USER_CHARACTER_DATA, file>>
             /\ (absent /\ u \in DOMAIN USER_CHARACTER_DATA') =>
                   ret'.cmd \in {"create", "import"}]_vars

\* a user who deleted their character asked for a check by name and was refused
C13_CheckAfterDelete ==
    /\ ret.cmd = "check"
    /\ ret.err = "NoCharacter"
    /\ writes = 2
    /\ ret.uid \notin DOMAIN USER_CHARACTER_DATA
    /\ file.state = "written"

\* C14: rename fails and changes nothing when the new nickname is blank after
\* trimming or the user has no record; otherwise it sets the nickname of the record
\* to the trimmed new nickname and saves, and every other key of the record, the core
\* total included, keeps its value; a later query shows the nickname the record
\* holds, so after a rename to n it shows n.
C14_RenameFrame ==
    [][/\ ret'.cmd = "rename" =>
            LET u == ret'.uid
                n == Strip(ret'.params)
            IN  IF n = <<>> \/ u \notin DOMAIN USER_CHARACTER_DATA
                THEN /\ ~ret'.ok
                     /\ ret'.err = (IF n = <<>> THEN "EmptyNickname" ELSE "NoCharacter")
                     /\ UNCHANGED <<USER_CHARACTER_DATA, file>>
                ELSE /\ DOMAIN USER_CHARACTER_DATA' = DOMAIN USER_CHARACTER_DATA
                     /\ \A w \in DOMAIN USER_CHARACTER_DATA \ {u} :
                            USER_CHARACTER_DATA'[w] = USER_CHARACTER_DATA[w]
                     /\ DOMAIN USER_CHARACTER_DATA'[u] = DOMAIN USER_CHARACTER_DATA[u]
                     /\ USER_CHARACTER_DATA'[u][NICK] = StrV(n)
                     /\ \A k \in DOMAIN USER_CHARACTER_DATA[u] \ {NICK} :
                            USER_CHARACTER_DATA'[u][k] = USER_CHARACTER_DATA[u][k]
                     /\ \/ file' = [state |-> "written", data |-> USER_CHARACTER_DATA']
                        \/ faults' = faults + 1
       /\ (ret'.cmd \in {"query_character", "query_skill"} /\ ret'.ok) =>
            /\ NICK \in DOMAIN USER_CHARACTER_DATA[ret'.uid]
            /\ StrV(ret'.info.nickname) = USER_CHARACTER_DATA[ret'.uid][NICK]]_vars

\* a query after create-character and a rename to Neo showed Neo
C14_QueryShowsNewNickname ==
    /\ ret.cmd = "query_character"
    /\ ret.ok
    /\ ret.info.nickname = <<"N", "e", "o">>
    /\ writes = 2
    /\ USER_CHARACTER_DATA[ret.uid][NICK] = StrV(<<"N", "e", "o">>)

\* C15: create-character succeeds in every store state and replaces the record of
\* the user by a freshly generated one: the new record holds exactly the fifteen
\* base attributes, the nickname and the core total, with generated values, so no
\* custom skill and no imported value of the old record survives.
C15_CreateReplaces ==
    [][ret'.cmd = "create" =>
         LET u == ret'.uid
             nick == IF Strip(ret'.params) # <<>> THEN Strip(ret'.params) ELSE user_nickname(u)
             new == USER_CHARACTER_DATA'[u]
         IN  /\ ret'.ok
             /\ u \in DOMAIN USER_CHARACTER_DATA'
             /\ DOMAIN new = {BASE_ATTR_MAP[n] : n \in DOMAIN BASE_ATTR_MAP} \cup {NICK, TOTAL}
             /\ Cardinality(DOMAIN new) = 17
             /\ new[NICK] = StrV(nick)
             /\ new \in generate_character_attributes(nick)
             /\ \A k \in {"STR", "CON", "DEX", "APP", "POW", "LUCK"} :
                    new[k].int \in {5 * x : x \in 3..18}
             /\ \A k \in {"SIZ", "INT", "EDU"} : new[k].int \in {5 * x : x \in 8..18}
             /\ new["HP"] = IntV(12) /\ new["MP"] = IntV(10) /\ new["SAN"] = IntV(50)
             /\ \A w \in DOMAIN USER_CHARACTER_DATA \ {u} :
                    w \in DOMAIN USER_CHARACTER_DATA'
                    /\ USER_CHARACTER_DATA'[w] = USER_CHARACTER_DATA[w]]_vars

\* create-character replaced a record holding a custom skill, which the file (whose
\* write failed) still shows
C15_CustomSkillGone ==
    /\ ret.cmd = "create"
    /\ ret.ok
    /\ ret.uid \in DOMAIN file.data
    /\ "<gan><zhi5>" \in DOMAIN file.data[ret.uid]
    /\ "<gan><zhi5>" \notin DOMAIN USER_CHARACTER_DATA[ret.uid]

\* C16: after a command that writes the store, or a plugin stop, either the save
\* succeeded and the file holds the whole in-memory store, or the save failed, the
\* command still reports success and the file keeps the content it had; so the next
\* save that succeeds makes the file equal to the in-memory store again.
C16_PersistedFollowsStore ==
    [][(file' # file \/ faults' # faults \/ writes' # writes) =>
         \/ file' = [state |-> "written", data |-> USER_CHARACTER_DATA']
         \/ /\ faults' = faults + 1
            /\ file' = file
            /\ ret'.cmd # "none" => ret'.ok]_vars

\* C17: no command treats a reserved key as a skill: the nickname of a record changes
\* only through create-character and rename, and an import that creates the record
\* gives it the user's nickname; check, query-skill and delete-attribute never
\* resolve or remove the nickname or the core total.
C17_ReservedKeys ==
    [][/\ \A u \in DOMAIN USER_CHARACTER_DATA \cap DOMAIN USER_CHARACTER_DATA' :
              USER_CHARACTER_DATA'[u][NICK] # USER_CHARACTER_DATA[u][NICK]
                  => ret'.cmd \in {"create", "rename"}
       /\ (ret'.cmd = "import" /\ ret'.ok /\ ret'.uid \notin DOMAIN USER_CHARACTER_DATA) =>
              USER_CHARACTER_DATA'[ret'.uid][NICK] = StrV(user_nickname(ret'.uid))
       /\ (/\ ret'.cmd \in {"check", "query_skill", "delete"}
           /\ Join(split_check_params(ret'.params)[1]) \in {NICK, TOTAL}) => ~ret'.ok]_vars

\* C18: a check that names an attribute by an alias of the alias table resolves it as
\* the canonical name does: on a user with a record it is not refused as not found.
C18_AliasResolves ==
    (/\ ret.cmd = "check"
     /\ ret.uid \in DOMAIN USER_CHARACTER_DATA
     /\ Join(Lower(split_check_params(ret.params)[1])) \in DOMAIN ATTR_ALIAS_MAP)
        => ret.err # "AttributeNotFound"

\* C19: the roll command attaches critical success when total <= successThreshold
\* and critical failure when total >= failThreshold, the total being the dice plus
\* the modifier, and only when the expression is one d100; for every other count or
\* face number no verdict is attached.
C19_RollVerdict ==
    (ret.cmd = "roll" /\ ret.ok) =>
        LET i == ret.info
            one_d100 == i.count = 1 /\ i.face = 100
        IN  /\ i.total - i.modifier \in i.count .. (i.count * i.face)
            /\ i.judge_result = "critical_success" <=> (one_d100 /\ i.total <= success_threshold)
            /\ i.judge_result = "critical_failure" <=> (one_d100 /\ i.total >= fail_threshold)
            /\ i.judge_result \in {"critical_success", "critical_failure", ""}
            /\ ret.params = <<"d", "1", "0", "0", "+", "9", "5">> =>
                   i.count = 1 /\ i.face = 100 /\ i.judge_result = "critical_failure"
            /\ ret.params = <<"1", "d", "1", "0", "0", "-", "9", "5">> =>
                   i.judge_result = "critical_success"
            /\ ret.params \in {<<"2", "d", "5", "0">>, <<"1", "d", "6">>, <<"d", "6", "-", "1">>} =>
                   i.judge_result = ""

\* a roll of dice other than one d100 totalled within the critical-success range
C19_LowTotalOtherDice ==
    /\ ret.cmd = "roll"
    /\ ret.ok
    /\ ret.params = <<"1", "d", "6">>
    /\ ret.info.total = 1
    /\ ret.info.judge_result = ""

\* C20: an import whose text is blank, holds no name/value pair, or whose pairs are
\* all dropped as unparseable creates no record, changes no attribute and saves
\* nothing.
C20_MalformedImportInert ==
    [][(/\ ret'.cmd = "import"
        /\ \/ ~ret'.ok
           \/ ret'.info.import_attr_dict = <<>>)
         => UNCHANGED <<USER_CHARACTER_DATA, file>>]_vars

\* C21: when one import text names the same attribute more than once, directly or
\* through aliases of one canonical name, the value stored is that of the last
\* occurrence whose value parsed; an occurrence dropped as unparseable overwrites
\* nothing, and a name whose occurrences are all dropped leaves its key as it was.
C21_LastOccurrenceWins ==
    (ret.cmd = "import" /\ ret.ok) =>
        LET matches == ImportMatches(ret.params, 1)
            base == ret.info.base_char
            new == USER_CHARACTER_DATA[ret.uid]
            names == {StandardName(matches[i].raw_name) : i \in DOMAIN matches}
            Parsed(n) == {i \in DOMAIN matches :
                             /\ StandardName(matches[i].raw_name) = n
                             /\ ImportValues(matches[i].value_str) # {}}
            Last(n) == CHOOSE i \in Parsed(n) : \A j \in Parsed(n) : j <= i
        IN  \A n \in names :
                StoredKey(n) # TOTAL =>
                    IF Parsed(n) = {}
                    THEN IF StoredKey(n) \in DOMAIN base
                         THEN new[StoredKey(n)] = base[StoredKey(n)]
                         ELSE StoredKey(n) \notin DOMAIN new
                    ELSE \E v \in ImportValues(matches[Last(n)].value_str) :
                             new[StoredKey(n)] = IntV(Max(0, Min(200, v)))

\* an import named STR three times: 60, then 70 through the alias str, then a dice
\* expression that is dropped; the record holds 70
C21_AliasThenDropped ==
    /\ ret.cmd = "import"
    /\ ret.ok
    /\ ret.params = <<"<li>", "<liang>", "6", "0", "s", "t", "r", "7", "0", " ",
                      "<li>", "<liang>", "1", "d", "0">>
    /\ Len(ImportMatches(ret.params, 1)) = 3
    /\ USER_CHARACTER_DATA[ret.uid]["STR"] = IntV(70)

\* C22: a delete-attribute on a base attribute sets it to a value of its default
\* generator whatever the record holds: a multiple of 5 in 15..90 for STR, CON, DEX,
\* APP, POW, LUCK, a multiple of 5 in 40..90 for SIZ, INT, EDU, 12, 10, 50 for HP, MP,
\* SAN; DB, DODGE and MOV get the value the formulas give for some freshly generated
\* STR, SIZ, DEX, and the record's own STR, SIZ, DEX stay as they were.
C22_ResetToGenerated ==
    [][(/\ ret'.cmd = "delete"
        /\ ret'.ok
        /\ Join(Strip(ret'.params)) \in DOMAIN BASE_ATTR_MAP) =>
         LET short == BASE_ATTR_MAP[Join(Strip(ret'.params))]
             old == USER_CHARACTER_DATA[ret'.uid]
             new == USER_CHARACTER_DATA'[ret'.uid]
             v == new[short].int
             Fresh3d6 == {x \in 15..90 : x % 5 = 0}
             Fresh2d6 == {x \in 40..90 : x % 5 = 0}
             FreshDB(t) == IF t <= 64 THEN {-2}
                           ELSE IF t <= 84 THEN {-1}
                           ELSE IF t <= 124 THEN {0}
                           ELSE IF t <= 164 THEN 1..4
                           ELSE 1..6
             FreshMOV(d, st, sz) == IF d < sz /\ st < sz THEN 7
                                    ELSE IF d > sz /\ st > sz THEN 9 ELSE 8
         IN  /\ new[short] = IntV(v)
             /\ short \in {"STR", "CON", "DEX", "APP", "POW", "LUCK"} => v \in Fresh3d6
             /\ short \in {"SIZ", "INT", "EDU"} => v \in Fresh2d6
             /\ short = "HP" => v = 12
             /\ short = "MP" => v = 10
             /\ short = "SAN" => v = 50
             /\ short = "DB" => \E st \in Fresh3d6, sz \in Fresh2d6 : v \in FreshDB(st + sz)
             /\ short = "DODGE" => \E d \in Fresh3d6 : v = d \div 2
             /\ short = "MOV" => \E d \in Fresh3d6, st \in Fresh3d6, sz \in Fresh2d6 :
                                     v = FreshMOV(d, st, sz)
             /\ short \in {"DB", "DODGE", "MOV"} =>
                    \A k \in {"STR", "SIZ", "DEX"} : new[k] = old[k]]_vars

\* DODGE was reset on a record whose DEX is 4: it is not DEX // 2 afterwards
C22_DodgeNotFromDex ==
    /\ ret.cmd = "delete"
    /\ ret.ok
    /\ ret.params = <<"<shan>", "<bi>">>
    /\ USER_CHARACTER_DATA[ret.uid]["DEX"] = IntV(4)
    /\ USER_CHARACTER_DATA[ret.uid]["DODGE"] # IntV(2)

\* C23: the deduction of a sanity check is at least 1 for every deduction
\* expression: an integer literal that is 0 or negative, a dice total below 1 and an
\* expression that cannot be parsed all deduct exactly 1; so every sanity check that
\* passes validation (a rule with a slash, a record, SAN above 0) succeeds and leaves
\* SAN strictly lower than before.
C23_DeductAtLeastOne ==
    (/\ ret.cmd = "san_check"
     /\ ret.err \notin {"MissingParameter", "MalformedRule", "NoCharacter", "SanAlreadyZero"})
        => /\ ret.ok
           /\ ret.info.deduct_value >= 1
           /\ USER_CHARACTER_DATA[ret.uid]["SAN"].int < ret.info.before_san
           /\ (\/ ~IsDigitStr(LStripMinus(ret.info.evaluated))
               \/ Head(ret.info.evaluated) = "-"
               \/ DigitsVal(LStripMinus(ret.info.evaluated)) = 0)
                  => (\/ parse_dice_expression(ret.info.evaluated).ok
                      \/ ret.info.deduct_value = 1)

C25_ValuesWithin200 ==
    /\ \A u \in DOMAIN USER_CHARACTER_DATA :
           \A k \in DOMAIN USER_CHARACTER_DATA[u] \ {NICK, TOTAL} :
               /\ IsInt(USER_CHARACTER_DATA[u][k])
               /\ USER_CHARACTER_DATA[u][k].int \in 0..200
    /\ ret.cmd = "check" => ret.err # "ValueAbnormal"

\* C26: for a user whose SAN is s > 0, every sanity check that passes validation
\* lowers SAN by at least 1 and not below 0, so that SAN is 0 after at most s of
\* them; once SAN is 0, every sanity check of that user fails with SanAlreadyZero,
\* rolls no dice and leaves the record and the file as they were.
C26_SanRunsOut ==
    [][(/\ ret'.cmd = "san_check"
        /\ ret'.err \notin {"MissingParameter", "MalformedRule", "NoCharacter"}) =>
         LET s == USER_CHARACTER_DATA[ret'.uid]["SAN"].int
         IN  IF s > 0
             THEN USER_CHARACTER_DATA'[ret'.uid]["SAN"].int \in 0..(s - 1)
             ELSE /\ ret'.err = "SanAlreadyZero"
                  /\ ret'.info = NoInfo
                  /\ UNCHANGED <<USER_CHARACTER_DATA, file>>]_vars

====
